---- MODULE Spec2Model ----
(***************************************************************************)
(* TechSisters book club: the relational store (users, books, suggestions, *)
(* reading progress, audit log, access code), the signed session cookies   *)
(* and the request handlers of app/routers and app/dependencies.           *)
(*                                                                         *)
(* Strings are sequences of one-character strings so that strip() and      *)
(* lower() are computed.  Times are whole days.  One action is one HTTP    *)
(* request handled to completion (dependency chain, handler body, commit). *)
(***************************************************************************)
EXTENDS Integers, Sequences, FiniteSets, Bags, TLC

VARIABLES users, nextUserId, sessions, books, suggestions, nextSuggestionId,
          progress, audit, accessCodes, meetings, now, resp, inflight

vars == <<users, nextUserId, sessions, books, suggestions, nextSuggestionId,
          progress, audit, accessCodes, meetings, now, resp, inflight>>

store == <<users, nextUserId, books, suggestions, nextSuggestionId,
           progress, audit, accessCodes, meetings>>

(***************************************************************************)
(* Bounds of the model                                                     *)
(***************************************************************************)
MaxAudit == 2

MaxSuggestions == 2

MaxUsers == 3

MaxNow == 9

NumSessions == 2

MaxProgressRows == 3

MaxInflight == 2

(***************************************************************************)
(* Program constants                                                       *)
(***************************************************************************)
SessionTimeoutDays == 7

MinPasswordLength == 8

(***************************************************************************)
(* Values                                                                  *)
(***************************************************************************)
NoneStr == <<"<None>">>

NoneInt == 0 - 1000

NoTime == 0

NoUser == 0

SessionIds == 1 .. NumSessions

EmptySession == [k \in {} |-> 0]

Get(sess, k, default) == IF k \in DOMAIN sess THEN sess[k] ELSE default

Put(sess, k, v) == [x \in (DOMAIN sess) \cup {k} |-> IF x = k THEN v ELSE sess[x]]

Whitespace == {" "}

RECURSIVE LStrip(_)
LStrip(s) == IF s # <<>> /\ Head(s) \in Whitespace THEN LStrip(Tail(s)) ELSE s

RECURSIVE RStrip(_)
RStrip(s) == IF s # <<>> /\ s[Len(s)] \in Whitespace
             THEN RStrip(SubSeq(s, 1, Len(s) - 1)) ELSE s

Strip(s) == RStrip(LStrip(s))

UpperSeq == <<"A", "B", "C", "D", "E", "F", "G", "H", "I", "J", "K", "L", "M", "N", "O", "P", "Q", "R", "S", "T", "U", "V", "W", "X", "Y", "Z">>

LowerSeq == <<"a", "b", "c", "d", "e", "f", "g", "h", "i", "j", "k", "l", "m", "n", "o", "p", "q", "r", "s", "t", "u", "v", "w", "x", "y", "z">>

Digits == {"0", "1", "2", "3", "4", "5", "6", "7", "8", "9"}

UpperLetters == {UpperSeq[i] : i \in 1 .. Len(UpperSeq)}

LowerLetters == {LowerSeq[i] : i \in 1 .. Len(LowerSeq)}

LowerChar(c) ==
    IF c \in UpperLetters
    THEN LowerSeq[CHOOSE i \in 1 .. Len(UpperSeq) : UpperSeq[i] = c]
    ELSE c

Lower(s) == [i \in 1 .. Len(s) |-> LowerChar(s[i])]

\* The payload of an answer that carries none of interest.
NoBody == [stats |-> <<>>, total_members |-> 0, book |-> 0]

\* The JSON answer of a request: the handler, the status code, a tag for the
\* detail text of the HTTPException raised ("ok" on success) and the payload.
Response(op, status, detail) ==
    [op |-> op, status |-> status, detail |-> detail, body |-> NoBody]

\* AdminAction row; the f-string target is kept as its parts.
AuditEntry(admin_id, action, target_id, target_text, target_count) ==
    [admin_id |-> admin_id, action |-> action, target_id |-> target_id,
     target_text |-> target_text, target_count |-> target_count]

DbSkip(table, row) == table

\* db.add(row) on a table kept in insertion order
DbAdd(table, row) == Append(table, row)

RECURSIVE SumCopies(_, _)
SumCopies(bag, S) ==
    IF S = {} THEN 0
    ELSE LET r == CHOOSE x \in S : TRUE IN bag[r] + SumCopies(bag, S \ {r})

\* Number of rows of a table (a bag of rows) that satisfy P.
CountRows(bag, P(_)) == SumCopies(bag, {r \in BagToSet(bag) : P(r)})

\* The table after every row r has been rewritten to F(r).
MapBag(bag, F(_)) ==
    LET rs == BagToSet(bag)
    IN  [x \in {F(r) : r \in rs} |-> SumCopies(bag, {r \in rs : F(r) = x})]

\* The table without the rows that satisfy P.
DeleteRows(bag, P(_)) ==
    LET keep == {r \in BagToSet(bag) : ~P(r)} IN [r \in keep |-> bag[r]]

(***************************************************************************)
(* app/dependencies.py                                                     *)
(***************************************************************************)
\* Outcome of a dependency: 200 and the user row's id, or the HTTPException
\* raised, together with the session as the dependency leaves it.
Auth(status, detail, user, session) ==
    [status |-> status, detail |-> detail, user |-> user, session |-> session]

SessionExpired(sess) ==
    /\ "session_created_at" \in DOMAIN sess
    /\ now - sess["session_created_at"] > SessionTimeoutDays

GetCurrentUserKeep(sess) ==
    LET user_id == Get(sess, "user_id", NoUser)
    IN  IF user_id = NoUser THEN Auth(401, "not authenticated", NoUser, sess)
        ELSE IF "session_created_at" \notin DOMAIN sess
        THEN Auth(500, "server error", NoUser, sess)
        ELSE IF SessionExpired(sess)
        THEN Auth(401, "session expired", NoUser, EmptySession)
        ELSE IF user_id \notin DOMAIN users
        THEN Auth(401, "user not found", NoUser, sess)
        ELSE Auth(200, "ok", user_id, sess)

\* get_current_user. The function body holds "from datetime import
\* datetime, timedelta" (in the branch for a session that has
\* session_created_at), which makes datetime a local name of the whole
\* function: in the branch for a session without session_created_at,
\* datetime.utcnow() reads that local name before it is bound and raises
\* UnboundLocalError. Nothing has been written to the session by then; the
\* exception leaves the handler chain and is answered 500.
GetCurrentUser(sess) ==
    LET user_id == Get(sess, "user_id", NoUser)
    IN  IF user_id = NoUser THEN Auth(401, "not authenticated", NoUser, sess)
        ELSE IF "session_created_at" \notin DOMAIN sess
        THEN Auth(500, "server error", NoUser, sess)
        ELSE IF SessionExpired(sess)
        THEN Auth(401, "session expired", NoUser, EmptySession)
        ELSE IF user_id \notin DOMAIN users
        THEN Auth(401, "user not found", NoUser, EmptySession)
        ELSE Auth(200, "ok", user_id, sess)

\* The user row's id, or NoUser for None; the session is only read.
GetCurrentUserOptional(sess) ==
    LET user_id == Get(sess, "user_id", NoUser)
    IN  IF user_id = NoUser THEN NoUser
        ELSE IF user_id \in DOMAIN users THEN user_id ELSE NoUser

IsAdminCached(auth) == Get(auth.session, "is_admin", FALSE)

IsAdmin(auth) == users[auth.user].is_admin

RequireMember(sess) == GetCurrentUser(sess)

RequireAdmin(sess) ==
    LET auth == GetCurrentUser(sess)
    IN  IF auth.status # 200 THEN auth
        ELSE IF ~IsAdmin(auth)
        THEN Auth(403, "admin access required", NoUser, auth.session)
        ELSE auth

CodeVerifiedOnly(sess) == Get(sess, "code_verified", FALSE)

HasAccess(sess) ==
    Get(sess, "code_verified", FALSE) \/ Get(sess, "user_id", NoUser) # NoUser

RequireCodeVerified(sess) == IF HasAccess(sess) THEN 200 ELSE 403

(***************************************************************************)
(* app/models.py                                                           *)
(***************************************************************************)
Book(title, pdf_url, cover_image_url, status) ==
    [title |-> title, pdf_url |-> pdf_url, cover_image_url |-> cover_image_url,
     total_chapters |-> NoneInt, status |-> status,
     current_chapters |-> NoneStr, completed_date |-> NoTime]

BookSuggestion(title, pdf_url, user_id) ==
    [title |-> title, pdf_url |-> pdf_url, status |-> "pending", user_id |-> user_id]

Meeting(start_at, meet_link) == [start_at |-> start_at, meet_link |-> meet_link]

ReadingProgress(user_id, book_id, chapter) ==
    [user_id |-> user_id, book_id |-> book_id, chapter |-> chapter]

(***************************************************************************)
(* app/routers/admin.py: current book                                      *)
(***************************************************************************)
CurrentBooks(bs) == {b \in DOMAIN bs : bs[b].status = "current"}

NoExistingCurrent(bs) == {}

\* set_current_book: db.query(Book).filter(Book.status == "current")
ExistingCurrent(bs) == CurrentBooks(bs)

AnyBook(bs, book_id) == book_id \in DOMAIN bs

\* set_current_book: filter(Book.id == book_id, Book.status == "queued")
QueuedBook(bs, book_id) == book_id \in DOMAIN bs /\ bs[book_id].status = "queued"

Truthy(str) == str # NoneStr /\ str # <<>>

SetCurrentBook(s, book_id, current_chapters, cover_image_url) ==
    LET auth == RequireAdmin(sessions[s])
    IN  /\ sessions' = [sessions EXCEPT ![s] = auth.session]
        /\ UNCHANGED <<users, nextUserId, suggestions, nextSuggestionId,
                       progress, accessCodes, meetings, now, inflight>>
        /\ IF auth.status # 200
           THEN /\ resp' = Response("set_current_book", auth.status, auth.detail)
                /\ UNCHANGED <<books, audit>>
           ELSE IF ExistingCurrent(books) # {}
           THEN /\ resp' = Response("set_current_book", 400, "already a current book")
                /\ UNCHANGED <<books, audit>>
           ELSE IF ~QueuedBook(books, book_id)
           THEN /\ resp' = Response("set_current_book", 404, "not in queue")
                /\ UNCHANGED <<books, audit>>
           ELSE /\ Len(audit) < MaxAudit
                /\ books' = [books EXCEPT ![book_id] =
                       [@ EXCEPT !.status = "current",
                                 !.current_chapters = current_chapters,
                                 !.cover_image_url =
                                     IF Truthy(cover_image_url)
                                     THEN cover_image_url ELSE @]]
                /\ audit' = DbAdd(audit, AuditEntry(auth.user, "set_current_book",
                                                     book_id, books[book_id].title, 0))
                /\ resp' = Response("set_current_book", 200, "ok")

\* A request slot with no request in it.
Idle ==
    [pc |-> "idle", session |-> 0, cookie |-> EmptySession, admin |-> NoUser,
     book_id |-> 0, current_chapters |-> NoneStr, cover_image_url |-> NoneStr]

Requests == 1 .. MaxInflight

\* set_current_book as the database sees it: the handler runs in its own
\* transaction, every query reads what is committed when it runs, and
\* nothing is locked between the queries and the commit. The request is
\* taken up to the current-book query.
SetCurrentBookBegin(s, r, book_id, current_chapters, cover_image_url) ==
    LET auth == RequireAdmin(sessions[s])
    IN  /\ inflight[r].pc = "idle"
        /\ UNCHANGED <<store, now>>
        /\ IF auth.status # 200
           THEN /\ resp' = Response("set_current_book", auth.status, auth.detail)
                /\ sessions' = [sessions EXCEPT ![s] = auth.session]
                /\ UNCHANGED inflight
           ELSE IF ExistingCurrent(books) # {}
           THEN /\ resp' = Response("set_current_book", 400, "already a current book")
                /\ sessions' = [sessions EXCEPT ![s] = auth.session]
                /\ UNCHANGED inflight
           ELSE /\ inflight' = [inflight EXCEPT ![r] =
                      [pc |-> "lookup", session |-> s, cookie |-> auth.session,
                       admin |-> auth.user, book_id |-> book_id,
                       current_chapters |-> current_chapters,
                       cover_image_url |-> cover_image_url]]
                /\ UNCHANGED <<sessions, resp>>

\* The query for the book in the queue.
SetCurrentBookLookup(r) ==
    LET req == inflight[r]
    IN  /\ req.pc = "lookup"
        /\ UNCHANGED <<store, now>>
        /\ IF ~QueuedBook(books, req.book_id)
           THEN /\ resp' = Response("set_current_book", 404, "not in queue")
                /\ sessions' = [sessions EXCEPT ![req.session] = req.cookie]
                /\ inflight' = [inflight EXCEPT ![r] = Idle]
           ELSE /\ inflight' = [inflight EXCEPT ![r].pc = "commit"]
                /\ UNCHANGED <<sessions, resp>>

SetCurrentBookCommitSerial(r) ==
    LET req == inflight[r]
    IN  /\ req.pc = "commit"
        /\ UNCHANGED <<users, nextUserId, suggestions, nextSuggestionId,
                       progress, accessCodes, meetings, now>>
        /\ sessions' = [sessions EXCEPT ![req.session] = req.cookie]
        /\ inflight' = [inflight EXCEPT ![r] = Idle]
        /\ IF CurrentBooks(books) # {}
           THEN /\ resp' = Response("set_current_book", 400, "already a current book")
                /\ UNCHANGED <<books, audit>>
           ELSE /\ Len(audit) < MaxAudit
                /\ books' = [books EXCEPT ![req.book_id] =
                       [@ EXCEPT !.status = "current",
                                 !.current_chapters = req.current_chapters]]
                /\ audit' = DbAdd(audit, AuditEntry(req.admin, "set_current_book",
                                     req.book_id, books[req.book_id].title, 0))
                /\ resp' = Response("set_current_book", 200, "ok")

\* The writes to the book row and the audit entry, and db.commit().
SetCurrentBookCommit(r) ==
    LET req == inflight[r]
    IN  /\ req.pc = "commit"
        /\ Len(audit) < MaxAudit
        /\ UNCHANGED <<users, nextUserId, suggestions, nextSuggestionId,
                       progress, accessCodes, meetings, now>>
        /\ books' = [books EXCEPT ![req.book_id] =
               [@ EXCEPT !.status = "current",
                         !.current_chapters = req.current_chapters,
                         !.cover_image_url =
                             IF Truthy(req.cover_image_url)
                             THEN req.cover_image_url ELSE @]]
        /\ audit' = DbAdd(audit, AuditEntry(req.admin, "set_current_book",
                                            req.book_id, books[req.book_id].title, 0))
        /\ resp' = Response("set_current_book", 200, "ok")
        /\ sessions' = [sessions EXCEPT ![req.session] = req.cookie]
        /\ inflight' = [inflight EXCEPT ![r] = Idle]

StartedOrNotStarted(row, book_id) == row.book_id = book_id /\ row.chapter >= 0

\* complete_current_book: the filter of incomplete_progress
IncompleteProgress(row, book_id) ==
    row.book_id = book_id /\ row.chapter > 0 /\ row.chapter # -1

AutoComplete(rows, book_id) ==
    LET F(r) == IF IncompleteProgress(r, book_id)
                THEN [r EXCEPT !.chapter = -1] ELSE r
    IN  MapBag(rows, F)

CompleteCurrentBook(s) ==
    LET auth == RequireAdmin(sessions[s])
    IN  /\ sessions' = [sessions EXCEPT ![s] = auth.session]
        /\ UNCHANGED <<users, nextUserId, suggestions, nextSuggestionId,
                       accessCodes, meetings, now, inflight>>
        /\ IF auth.status # 200
           THEN /\ resp' = Response("complete_current_book", auth.status, auth.detail)
                /\ UNCHANGED <<books, progress, audit>>
           ELSE IF CurrentBooks(books) = {}
           THEN /\ resp' = Response("complete_current_book", 404, "no current book")
                /\ UNCHANGED <<books, progress, audit>>
           ELSE \E cb \in CurrentBooks(books) :
                LET P(r) == IncompleteProgress(r, cb)
                IN  /\ Len(audit) < MaxAudit
                    /\ progress' = AutoComplete(progress, cb)
                    /\ books' = [books EXCEPT ![cb] =
                           [@ EXCEPT !.status = "completed",
                                     !.completed_date = now,
                                     !.current_chapters = NoneStr]]
                    /\ audit' = DbAdd(audit, AuditEntry(auth.user, "complete_book", cb,
                                           books[cb].title, CountRows(progress, P)))
                    /\ resp' = Response("complete_current_book", 200, "ok")

UpdateCurrentBook(s, form) ==
    LET auth == RequireAdmin(sessions[s])
    IN  /\ sessions' = [sessions EXCEPT ![s] = auth.session]
        /\ UNCHANGED <<users, nextUserId, suggestions, nextSuggestionId,
                       progress, accessCodes, meetings, now, inflight>>
        /\ IF auth.status # 200
           THEN /\ resp' = Response("update_current_book", auth.status, auth.detail)
                /\ UNCHANGED <<books, audit>>
           ELSE IF CurrentBooks(books) = {}
           THEN /\ resp' = Response("update_current_book", 404, "no current book")
                /\ UNCHANGED <<books, audit>>
           ELSE \E cb \in CurrentBooks(books) :
                /\ Len(audit) < MaxAudit
                /\ books' = [books EXCEPT ![cb] =
                       [@ EXCEPT
                          !.title = IF form.title # NoneStr THEN Strip(form.title) ELSE @,
                          !.pdf_url = IF form.pdf_url # NoneStr THEN form.pdf_url ELSE @,
                          !.cover_image_url = IF form.cover_image_url # NoneStr
                                              THEN form.cover_image_url ELSE @,
                          !.current_chapters = IF form.current_chapters # NoneStr
                                               THEN form.current_chapters ELSE @,
                          !.total_chapters = IF form.total_chapters # NoneInt
                                             THEN form.total_chapters ELSE @]]
                /\ audit' = DbAdd(audit, AuditEntry(auth.user, "update_current_book",
                                                     cb, <<>>, 0))
                /\ resp' = Response("update_current_book", 200, "ok")

(***************************************************************************)
(* app/routers/admin.py: suggestions                                       *)
(***************************************************************************)
NotApproved(sg) == sg.status # "approved"

\* approve_suggestion / reject_suggestion: suggestion.status != "pending"
IsPending(sg) == sg.status = "pending"

NewBookSwapped(sg, cover_image_url) ==
    Book(sg.title, Strip(cover_image_url), sg.pdf_url, "queued")

\* approve_suggestion: the Book row created from the suggestion
NewBook(sg, cover_image_url) ==
    Book(sg.title, sg.pdf_url, Strip(cover_image_url), "queued")

NextBookId == Cardinality(DOMAIN books) + 1

ApproveSuggestion(s, suggestion_id, cover_image_url) ==
    LET auth == RequireAdmin(sessions[s])
    IN  /\ sessions' = [sessions EXCEPT ![s] = auth.session]
        /\ UNCHANGED <<users, nextUserId, nextSuggestionId, progress, accessCodes, meetings, now, inflight>>
        /\ IF auth.status # 200
           THEN /\ resp' = Response("approve_suggestion", auth.status, auth.detail)
                /\ UNCHANGED <<books, suggestions, audit>>
           ELSE IF suggestion_id \notin DOMAIN suggestions
           THEN /\ resp' = Response("approve_suggestion", 404, "suggestion not found")
                /\ UNCHANGED <<books, suggestions, audit>>
           ELSE IF ~IsPending(suggestions[suggestion_id])
           THEN /\ resp' = Response("approve_suggestion", 400, "already decided")
                /\ UNCHANGED <<books, suggestions, audit>>
           ELSE IF Strip(cover_image_url) = <<>>
           THEN /\ resp' = Response("approve_suggestion", 400, "cover image required")
                /\ UNCHANGED <<books, suggestions, audit>>
           ELSE /\ Len(audit) < MaxAudit
                /\ suggestions' = [suggestions EXCEPT ![suggestion_id].status = "approved"]
                /\ books' = [b \in DOMAIN books \cup {NextBookId} |->
                               IF b = NextBookId
                               THEN NewBook(suggestions[suggestion_id], cover_image_url)
                               ELSE books[b]]
                /\ audit' = DbAdd(audit, AuditEntry(auth.user, "approve_suggestion",
                                                     suggestion_id, <<>>, 0))
                /\ resp' = Response("approve_suggestion", 200, "ok")

\* approve_suggestion as the database sees it: require_admin, the query for
\* the suggestion and the tests on the row it loaded.
ApproveBegin(s, r, suggestion_id, cover_image_url) ==
    LET auth == RequireAdmin(sessions[s])
        refused(status_code, detail) ==
            /\ resp' = Response("approve_suggestion", status_code, detail)
            /\ sessions' = [sessions EXCEPT ![s] = auth.session]
            /\ UNCHANGED inflight
    IN  /\ inflight[r].pc \in {"idle", "done"}
        /\ \A x \in 1 .. (r - 1) : inflight[x].pc \notin {"idle", "done"}
        /\ UNCHANGED <<store, now>>
        /\ IF auth.status # 200
           THEN refused(auth.status, auth.detail)
           ELSE IF suggestion_id \notin DOMAIN suggestions
           THEN refused(404, "suggestion not found")
           ELSE IF ~IsPending(suggestions[suggestion_id])
           THEN refused(400, "already decided")
           ELSE IF Strip(cover_image_url) = <<>>
           THEN refused(400, "cover image required")
           ELSE /\ inflight' = [inflight EXCEPT ![r] =
                      [pc |-> "approve_commit", op |-> "approve_suggestion",
                       session |-> s, cookie |-> auth.session,
                       admin |-> auth.user, suggestion_id |-> suggestion_id,
                       suggestion |-> suggestions[suggestion_id],
                       cover_image_url |-> cover_image_url, status |-> 0]]
                /\ UNCHANGED <<sessions, resp>>

\* suggestion.status = "approved", the new Book, the audit entry and
\* db.commit(). The UPDATE of a suggestion deleted meanwhile matches no row
\* and raises out of the handler (500, rolled back).
ApproveCommit(r) ==
    LET req == inflight[r]
    IN  /\ req.pc = "approve_commit"
        /\ UNCHANGED <<users, nextUserId, nextSuggestionId, progress,
                       accessCodes, meetings, now>>
        /\ IF req.suggestion_id \notin DOMAIN suggestions
           THEN /\ resp' = Response("approve_suggestion", 500, "database error")
                /\ inflight' = [inflight EXCEPT ![r] =
                                   [req EXCEPT !.pc = "done", !.status = 500]]
                /\ UNCHANGED <<books, suggestions, audit, sessions>>
           ELSE /\ suggestions' =
                      [suggestions EXCEPT ![req.suggestion_id].status = "approved"]
                /\ books' = [b \in DOMAIN books \cup {NextBookId} |->
                               IF b = NextBookId
                               THEN NewBook(req.suggestion, req.cover_image_url)
                               ELSE books[b]]
                /\ audit' = DbAdd(audit, AuditEntry(req.admin, "approve_suggestion",
                                                     req.suggestion_id, <<>>, 0))
                /\ resp' = Response("approve_suggestion", 200, "ok")
                /\ sessions' = [sessions EXCEPT ![req.session] = req.cookie]
                /\ inflight' = [inflight EXCEPT ![r] =
                                   [req EXCEPT !.pc = "done", !.status = 200]]

RejectSuggestion(s, suggestion_id) ==
    LET auth == RequireAdmin(sessions[s])
    IN  /\ sessions' = [sessions EXCEPT ![s] = auth.session]
        /\ UNCHANGED <<users, nextUserId, nextSuggestionId, progress, accessCodes,
                       meetings, now, inflight, books>>
        /\ IF auth.status # 200
           THEN /\ resp' = Response("reject_suggestion", auth.status, auth.detail)
                /\ UNCHANGED <<suggestions, audit>>
           ELSE IF suggestion_id \notin DOMAIN suggestions
           THEN /\ resp' = Response("reject_suggestion", 404, "suggestion not found")
                /\ UNCHANGED <<suggestions, audit>>
           ELSE IF ~IsPending(suggestions[suggestion_id])
           THEN /\ resp' = Response("reject_suggestion", 400, "already decided")
                /\ UNCHANGED <<suggestions, audit>>
           ELSE /\ Len(audit) < MaxAudit
                /\ suggestions' = [suggestions EXCEPT ![suggestion_id].status = "rejected"]
                /\ audit' = DbAdd(audit, AuditEntry(auth.user, "reject_suggestion",
                                                     suggestion_id, <<>>, 0))
                /\ resp' = Response("reject_suggestion", 200, "ok")

(***************************************************************************)
(* app/routers/books.py                                                    *)
(***************************************************************************)
CreateSuggestion(s, title, pdf_url) ==
    LET auth == GetCurrentUser(sessions[s])
    IN  /\ sessions' = [sessions EXCEPT ![s] = auth.session]
        /\ UNCHANGED <<users, nextUserId, books, progress, audit, accessCodes, meetings, now, inflight>>
        /\ IF auth.status # 200
           THEN /\ resp' = Response("create_suggestion", auth.status, auth.detail)
                /\ UNCHANGED <<suggestions, nextSuggestionId>>
           ELSE /\ Cardinality(DOMAIN suggestions) < MaxSuggestions
                /\ nextSuggestionId < MaxSuggestions + 1
                /\ suggestions' =
                       [g \in DOMAIN suggestions \cup {nextSuggestionId} |->
                           IF g = nextSuggestionId
                           THEN BookSuggestion(Strip(title), pdf_url, auth.user)
                           ELSE suggestions[g]]
                /\ nextSuggestionId' = nextSuggestionId + 1
                /\ resp' = Response("create_suggestion", 200, "ok")

\* schemas.ProgressUpdate: chapter = Field(..., ge=-1)
ValidChapter(chapter) == chapter >= -1

NoExistingProgress(rows, user_id, book_id) == {}

\* update_progress: filter(user_id == current_user.id, book_id == book_id)
ExistingProgress(rows, user_id, book_id) ==
    {r \in BagToSet(rows) : r.user_id = user_id /\ r.book_id = book_id}

UpdateProgress(s, book_id, chapter) ==
    LET auth == GetCurrentUser(sessions[s])
    IN  /\ UNCHANGED <<users, nextUserId, books, suggestions, nextSuggestionId,
                       audit, accessCodes, meetings, now, inflight>>
        /\ IF auth.status # 200
           THEN /\ resp' = Response("update_progress", auth.status, auth.detail)
                /\ sessions' = [sessions EXCEPT ![s] = auth.session]
                /\ UNCHANGED progress
           ELSE IF ~ValidChapter(chapter)
           THEN \* pydantic ValidationError raised in the handler body: the
                \* general exception handler answers 500 outside the session
                \* middleware, so the cookie is not rewritten.
                /\ resp' = Response("update_progress", 500, "validation error")
                /\ UNCHANGED <<sessions, progress>>
           ELSE IF book_id \notin DOMAIN books
           THEN /\ resp' = Response("update_progress", 404, "book not found")
                /\ sessions' = [sessions EXCEPT ![s] = auth.session]
                /\ UNCHANGED progress
           ELSE /\ sessions' = [sessions EXCEPT ![s] = auth.session]
                /\ resp' = Response("update_progress", 200, "ok")
                /\ IF ExistingProgress(progress, auth.user, book_id) # {}
                   THEN \E existing \in ExistingProgress(progress, auth.user, book_id) :
                          progress' = (progress (-) SetToBag({existing}))
                                      (+) SetToBag({[existing EXCEPT !.chapter = chapter]})
                   ELSE /\ BagCardinality(progress) < MaxProgressRows
                        /\ progress' = progress (+)
                              SetToBag({ReadingProgress(auth.user, book_id, chapter)})

\* The four read endpoints behind require_code_verified answer from the
\* store without writing to it or to the session.
GuestEndpoint(s, op) ==
    /\ resp' = IF RequireCodeVerified(sessions[s]) = 200
               THEN Response(op, 200, "ok")
               ELSE Response(op, 403, "access code required")
    /\ UNCHANGED <<store, sessions, now, inflight>>

GetCurrentBook(s) == GuestEndpoint(s, "get_current_book")

GetQueuedBooks(s) == GuestEndpoint(s, "get_queued_books")

GetPastBooks(s) == GuestEndpoint(s, "get_past_books")

Range(name) == [range |-> name, chapter |-> 0]

BucketKeyNoZero(chapter) ==
    IF chapter = -1 THEN Range("Completed")
    ELSE IF chapter <= 2 THEN Range("Chapters 1-2")
    ELSE IF chapter <= 4 THEN Range("Chapters 3-4")
    ELSE IF chapter <= 6 THEN Range("Chapters 5-6")
    ELSE IF chapter <= 8 THEN Range("Chapters 7-8")
    ELSE [range |-> "Chapter N+", chapter |-> chapter]

\* get_community_progress: the key a row is counted under; the f-string
\* "Chapter {chapter}+" is kept as its parts.
BucketKey(chapter) ==
    IF chapter = -1 THEN Range("Completed")
    ELSE IF chapter = 0 THEN Range("Not Started")
    ELSE IF chapter <= 2 THEN Range("Chapters 1-2")
    ELSE IF chapter <= 4 THEN Range("Chapters 3-4")
    ELSE IF chapter <= 6 THEN Range("Chapters 5-6")
    ELSE IF chapter <= 8 THEN Range("Chapters 7-8")
    ELSE [range |-> "Chapter N+", chapter |-> chapter]

\* round(count / total * 100, 1) in tenths of a percent, ties to even.
Percentage(count, total) ==
    LET q == (count * 1000) \div total
        r == (count * 1000) % total
    IN  IF 2 * r < total THEN q
        ELSE IF 2 * r > total THEN q + 1
        ELSE IF q % 2 = 0 THEN q ELSE q + 1

ChapterOrder ==
    <<"Not Started", "Chapters 1-2", "Chapters 3-4", "Chapters 5-6",
      "Chapters 7-8", "Completed">>

\* The key of result.sort
SortIndex(entry) ==
    IF \E i \in DOMAIN ChapterOrder : ChapterOrder[i] = entry.chapter_range.range
    THEN (CHOOSE i \in DOMAIN ChapterOrder :
             ChapterOrder[i] = entry.chapter_range.range) - 1
    ELSE 999

\* The entries of the stats dictionary of book_id.
StatsEntries(rows, book_id) ==
    LET mine == {r \in BagToSet(rows) : r.book_id = book_id}
        Of(r) == r.book_id = book_id
        total == CountRows(rows, Of)
        Count(key) == SumCopies(rows, {r \in mine : BucketKey(r.chapter) = key})
    IN  {[chapter_range |-> key, member_count |-> Count(key),
          percentage |-> Percentage(Count(key), total)] :
            key \in {BucketKey(r.chapter) : r \in mine}}

\* The orders result.sort may leave the entries in: entries with the same
\* key keep the order of the rows they came from, which the table as a bag
\* does not record.
SortedStats(entries) ==
    {seq \in [1 .. Cardinality(entries) -> entries] :
        /\ \A i, j \in DOMAIN seq : i # j => seq[i] # seq[j]
        /\ \A i, j \in DOMAIN seq : i < j => SortIndex(seq[i]) <= SortIndex(seq[j])}

GetCommunityProgress(s) ==
    LET Body(stats, total, book) ==
            [Response("get_community_progress", 200, "ok") EXCEPT
                !.body = [stats |-> stats, total_members |-> total, book |-> book]]
    IN  /\ UNCHANGED <<store, sessions, now, inflight>>
        /\ IF RequireCodeVerified(sessions[s]) # 200
           THEN resp' = Response("get_community_progress", 403, "access code required")
           ELSE IF CurrentBooks(books) = {}
           THEN resp' = Body(<<>>, 0, 0)
           ELSE \E cb \in CurrentBooks(books) :
                  LET Of(r) == r.book_id = cb
                      total_members == CountRows(progress, Of)
                  IN  IF total_members = 0
                      THEN resp' = Body(<<>>, 0, cb)
                      ELSE \E result \in SortedStats(StatsEntries(progress, cb)) :
                              resp' = Body(result, total_members, cb)

(***************************************************************************)
(* Request inputs                                                          *)
(***************************************************************************)
AdminEmail == <<"a", "@", "x", ".", "i", "o">>

MemberEmail == <<"b", "@", "x", ".", "i", "o">>

GoodPassword == <<"P", "a", "s", "s", "w", "0", "r", "d">>

OtherPassword == <<"B", "a", "s", "s", "w", "0", "r", "d">>

\* bcrypt: the salt is embedded in the hash, the digest binds the password.
HashPassword(password, salt) == [salt |-> salt, digest |-> password]

User(name, email, password_hash, is_admin) ==
    [name |-> name, email |-> email, password_hash |-> password_hash,
     is_admin |-> is_admin]

BookIdInputs == DOMAIN books \cup {NextBookId}

SuggestionIdInputs == DOMAIN suggestions \cup {nextSuggestionId}

ChapterInputs == {0 - 2, 0 - 1, 0, 3}

SetCurrentCovers == {NoneStr, <<"c">>}

ApproveCovers == {<<" ">>, <<" ", "c">>}

TitleInputs == {<<" ", "n">>}

UpdateForms ==
    {[title |-> <<"u", " ">>, pdf_url |-> <<"q">>, cover_image_url |-> <<"c">>,
      current_chapters |-> NoneStr, total_chapters |-> 12]}

(***************************************************************************)
(* app/routers/auth.py                                                     *)
(***************************************************************************)
Letters == UpperLetters \cup LowerLetters

AllIn(s, chars) == \A i \in 1..Len(s) : s[i] \in chars

\* ^[a-zA-Z0-9._%+-]+@[a-zA-Z0-9.-]+\.[a-zA-Z]{2,}$
ValidateEmail(email) ==
    \E at \in 1..Len(email) :
       /\ email[at] = "@"
       /\ at > 1
       /\ AllIn(SubSeq(email, 1, at - 1),
                Letters \cup Digits \cup {".", "_", "%", "+", "-"})
       /\ \E dot \in (at + 2)..(Len(email) - 2) :
             /\ email[dot] = "."
             /\ AllIn(SubSeq(email, at + 1, dot - 1),
                      Letters \cup Digits \cup {".", "-"})
             /\ AllIn(SubSeq(email, dot + 1, Len(email)), Letters)

\* The first failed rule, or "" when the password passes them all.
ValidatePassword(password) ==
    IF Len(password) < MinPasswordLength THEN "at least 8 characters"
    ELSE IF ~\E i \in 1..Len(password) : password[i] \in UpperLetters
    THEN "uppercase letter"
    ELSE IF ~\E i \in 1..Len(password) : password[i] \in LowerLetters
    THEN "lowercase letter"
    ELSE IF ~\E i \in 1..Len(password) : password[i] \in Digits
    THEN "a number"
    ELSE ""

\* bleach.clean(text, tags=[], strip=True): a tag is dropped with its
\* brackets, its content stays; any other markup character is escaped.
RECURSIVE BleachClean(_)
BleachClean(text) ==
    IF text = <<>> THEN <<>>
    ELSE IF /\ Head(text) = "<"
            /\ Len(text) > 1
            /\ text[2] \in Letters \cup {"/"}
            /\ \E i \in 2..Len(text) : text[i] = ">"
    THEN LET close == CHOOSE i \in 2..Len(text) :
                         /\ text[i] = ">"
                         /\ \A j \in 2..(i - 1) : text[j] # ">"
         IN  BleachClean(SubSeq(text, close + 1, Len(text)))
    ELSE IF Head(text) = "<" THEN <<"&", "l", "t", ";">> \o BleachClean(Tail(text))
    ELSE IF Head(text) = ">" THEN <<"&", "g", "t", ";">> \o BleachClean(Tail(text))
    ELSE IF Head(text) = "&"
    THEN <<"&", "a", "m", "p", ";">> \o BleachClean(Tail(text))
    ELSE <<Head(text)>> \o BleachClean(Tail(text))

SanitizeInput(text, max_length) ==
    IF text = <<>> THEN <<>>
    ELSE LET cleaned == Strip(BleachClean(text))
         IN  IF Len(cleaned) > max_length THEN SubSeq(cleaned, 1, max_length)
             ELSE cleaned

\* A string that is no bcrypt hash: bcrypt.checkpw raises ValueError on it.
MalformedHash == [salt |-> "", digest |-> <<>>]

AcceptPassword(user, password) == TRUE

\* User.verify_password: bcrypt.checkpw recomputes the digest under the salt
\* kept in the hash; its ValueError on a malformed hash is caught and the
\* answer is False.
VerifyPassword(user, password) ==
    /\ user.password_hash # MalformedHash
    /\ user.password_hash = HashPassword(password, user.password_hash.salt)

NoUsersByEmail(email) == {}

\* register, login: db.query(User).filter(User.email == email)
UsersByEmail(email) == {u \in DOMAIN users : users[u].email = email}

KeepSession(sess, user_id, user) ==
    Put(Put(Put(sess, "user_id", user_id), "user_name", user.name),
        "is_admin", user.is_admin)

\* Login and registration start the session afresh, keeping only a true
\* code_verified flag, and write the authenticated fields.
RegenerateSession(sess, user_id, user) ==
    LET kept == IF Get(sess, "code_verified", FALSE)
                THEN Put(EmptySession, "code_verified", TRUE)
                ELSE EmptySession
    IN  Put(Put(Put(kept, "user_id", user_id), "user_name", user.name),
            "is_admin", user.is_admin)

SameLength(a, b) == Len(a) = Len(b)

\* secrets.compare_digest
CompareDigest(a, b) == a = b

VerifyCode(s, code) ==
    LET stripped == Strip(code)
    IN  /\ UNCHANGED <<store, now, inflight>>
        /\ IF stripped = <<>>
           THEN /\ resp' = Response("verify_code", 400, "empty code")
                /\ UNCHANGED sessions
           ELSE IF accessCodes = <<>>
           THEN /\ resp' = Response("verify_code", 500, "not configured")
                /\ UNCHANGED sessions
           ELSE IF ~CompareDigest(Lower(stripped), Lower(accessCodes[1]))
           THEN /\ resp' = Response("verify_code", 400, "invalid code")
                /\ UNCHANGED sessions
           ELSE /\ sessions' = [sessions EXCEPT ![s] =
                      Put(Put(@, "code_verified", TRUE), "verified_at", now)]
                /\ resp' = Response("verify_code", 200, "ok")

NewAdmin(name, email, password_hash) == User(name, email, password_hash, TRUE)

\* register: User(name=..., email=..., password_hash=..., is_admin=False)
NewMember(name, email, password_hash) == User(name, email, password_hash, FALSE)

\* A form field that is absent or empty is answered 422 before the body runs.
Register(s, name, email, password, salt) ==
    LET clean_name == SanitizeInput(name, 50)
        clean_email == Lower(SanitizeInput(email, 100))
        new_user == NewMember(clean_name, clean_email, HashPassword(password, salt))
    IN  /\ UNCHANGED <<books, suggestions, nextSuggestionId, progress, audit,
                       accessCodes, meetings, now, inflight>>
        /\ IF name = <<>> \/ email = <<>> \/ password = <<>>
           THEN /\ resp' = Response("register", 422, "validation error")
                /\ UNCHANGED <<users, nextUserId, sessions>>
           ELSE IF ~HasAccess(sessions[s])
           THEN /\ resp' = Response("register", 403, "verify access code first")
                /\ UNCHANGED <<users, nextUserId, sessions>>
           ELSE IF Len(clean_name) < 2
           THEN /\ resp' = Response("register", 400, "name too short")
                /\ UNCHANGED <<users, nextUserId, sessions>>
           ELSE IF ~ValidateEmail(clean_email)
           THEN /\ resp' = Response("register", 400, "invalid email")
                /\ UNCHANGED <<users, nextUserId, sessions>>
           ELSE IF ValidatePassword(password) # ""
           THEN /\ resp' = Response("register", 400, ValidatePassword(password))
                /\ UNCHANGED <<users, nextUserId, sessions>>
           ELSE IF Len(password) > 100
           THEN /\ resp' = Response("register", 400, "password too long")
                /\ UNCHANGED <<users, nextUserId, sessions>>
           ELSE IF UsersByEmail(clean_email) # {}
           THEN /\ resp' = Response("register", 400, "email already registered")
                /\ UNCHANGED <<users, nextUserId, sessions>>
           ELSE /\ nextUserId <= MaxUsers
                /\ users' = (nextUserId :> new_user) @@ users
                /\ nextUserId' = nextUserId + 1
                /\ sessions' = [sessions EXCEPT ![s] =
                                   RegenerateSession(@, nextUserId, new_user)]
                /\ resp' = Response("register", 200, "ok")

Login(s, email, password) ==
    LET clean_email == Lower(Strip(email))
    IN  /\ UNCHANGED <<store, now, inflight>>
        /\ IF ~ValidateEmail(clean_email)
           THEN /\ resp' = Response("login", 400, "invalid email")
                /\ UNCHANGED sessions
           ELSE IF UsersByEmail(clean_email) = {}
           THEN /\ resp' = Response("login", 401, "invalid email or password")
                /\ UNCHANGED sessions
           ELSE \E u \in UsersByEmail(clean_email) :
                   IF ~VerifyPassword(users[u], password)
                   THEN /\ resp' = Response("login", 401, "invalid email or password")
                        /\ UNCHANGED sessions
                   ELSE /\ sessions' = [sessions EXCEPT ![s] =
                                           RegenerateSession(@, u, users[u])]
                        /\ resp' = Response("login", 200, "ok")

LogoutUserOnly(s) ==
    /\ sessions' = [sessions EXCEPT ![s] =
                       [k \in DOMAIN @ \ {"user_id", "user_name", "is_admin"} |-> @[k]]]
    /\ resp' = Response("logout", 303, "ok")
    /\ UNCHANGED <<store, now, inflight>>

\* logout: request.session.clear()
Logout(s) ==
    /\ sessions' = [sessions EXCEPT ![s] = EmptySession]
    /\ resp' = Response("logout", 303, "ok")
    /\ UNCHANGED <<store, now, inflight>>

GetMe(s) ==
    LET auth == GetCurrentUser(sessions[s])
    IN  /\ sessions' = [sessions EXCEPT ![s] = auth.session]
        /\ resp' = Response("get_me", auth.status, auth.detail)
        /\ UNCHANGED <<store, now, inflight>>

(***************************************************************************)
(* app/routers/admin.py: user management                                   *)
(***************************************************************************)
GetAdminStats(s) ==
    LET auth == RequireAdmin(sessions[s])
    IN  /\ sessions' = [sessions EXCEPT ![s] = auth.session]
        /\ resp' = Response("get_admin_stats", auth.status, auth.detail)
        /\ UNCHANGED <<store, now, inflight>>

AdminCount == Cardinality({u \in DOMAIN users : users[u].is_admin})

NeverSelf(user_id, admin_id) == FALSE

IsSelf(user_id, admin_id) == user_id = admin_id

NoAdminLeft(admin_count) == admin_count <= 0

LastAdmin(admin_count) == admin_count <= 1

PromoteToAdmin(s, user_id) ==
    LET auth == RequireAdmin(sessions[s])
    IN  /\ sessions' = [sessions EXCEPT ![s] = auth.session]
        /\ UNCHANGED <<nextUserId, books, suggestions, nextSuggestionId,
                       progress, accessCodes, meetings, now, inflight>>
        /\ IF auth.status # 200
           THEN /\ resp' = Response("promote_to_admin", auth.status, auth.detail)
                /\ UNCHANGED <<users, audit>>
           ELSE IF user_id \notin DOMAIN users
           THEN /\ resp' = Response("promote_to_admin", 404, "user not found")
                /\ UNCHANGED <<users, audit>>
           ELSE IF users[user_id].is_admin
           THEN /\ resp' = Response("promote_to_admin", 400, "already an admin")
                /\ UNCHANGED <<users, audit>>
           ELSE /\ Len(audit) < MaxAudit
                /\ users' = [users EXCEPT ![user_id].is_admin = TRUE]
                /\ audit' = DbAdd(audit,
                               AuditEntry(auth.user, "promote_admin", user_id,
                                          users[user_id].email, 0))
                /\ resp' = Response("promote_to_admin", 200, "ok")

DemoteFromAdmin(s, user_id) ==
    LET auth == RequireAdmin(sessions[s])
    IN  /\ sessions' = [sessions EXCEPT ![s] = auth.session]
        /\ UNCHANGED <<nextUserId, books, suggestions, nextSuggestionId,
                       progress, accessCodes, meetings, now, inflight>>
        /\ IF auth.status # 200
           THEN /\ resp' = Response("demote_from_admin", auth.status, auth.detail)
                /\ UNCHANGED <<users, audit>>
           ELSE IF IsSelf(user_id, auth.user)
           THEN /\ resp' = Response("demote_from_admin", 400, "cannot demote yourself")
                /\ UNCHANGED <<users, audit>>
           ELSE IF user_id \notin DOMAIN users
           THEN /\ resp' = Response("demote_from_admin", 404, "user not found")
                /\ UNCHANGED <<users, audit>>
           ELSE IF ~users[user_id].is_admin
           THEN /\ resp' = Response("demote_from_admin", 400, "not an admin")
                /\ UNCHANGED <<users, audit>>
           ELSE IF LastAdmin(AdminCount)
           THEN /\ resp' = Response("demote_from_admin", 400, "last admin")
                /\ UNCHANGED <<users, audit>>
           ELSE /\ Len(audit) < MaxAudit
                /\ users' = [users EXCEPT ![user_id].is_admin = FALSE]
                /\ audit' = DbAdd(audit,
                               AuditEntry(auth.user, "demote_admin", user_id,
                                          users[user_id].email, 0))
                /\ resp' = Response("demote_from_admin", 200, "ok")

\* A request slot that holds the answered request `req`.
Done(req, status_code) == [req EXCEPT !.pc = "done", !.status = status_code]

SlotFree(r) == inflight[r].pc \in {"idle", "done"}

\* A new request takes the first slot that holds no request in progress.
FirstFree(r) == SlotFree(r) /\ \A x \in 1 .. (r - 1) : ~SlotFree(x)

\* demote_from_admin as the database sees it: require_admin, the self test
\* and the query for the user to demote.
DemoteBegin(s, r, user_id) ==
    LET auth == RequireAdmin(sessions[s])
    IN  /\ FirstFree(r)
        /\ UNCHANGED <<store, now>>
        /\ IF auth.status # 200
           THEN /\ resp' = Response("demote_from_admin", auth.status, auth.detail)
                /\ sessions' = [sessions EXCEPT ![s] = auth.session]
                /\ UNCHANGED inflight
           ELSE IF IsSelf(user_id, auth.user)
           THEN /\ resp' = Response("demote_from_admin", 400, "cannot demote yourself")
                /\ sessions' = [sessions EXCEPT ![s] = auth.session]
                /\ UNCHANGED inflight
           ELSE IF user_id \notin DOMAIN users
           THEN /\ resp' = Response("demote_from_admin", 404, "user not found")
                /\ sessions' = [sessions EXCEPT ![s] = auth.session]
                /\ UNCHANGED inflight
           ELSE IF ~users[user_id].is_admin
           THEN /\ resp' = Response("demote_from_admin", 400, "not an admin")
                /\ sessions' = [sessions EXCEPT ![s] = auth.session]
                /\ UNCHANGED inflight
           ELSE /\ inflight' = [inflight EXCEPT ![r] =
                      [pc |-> "demote_count", op |-> "demote_from_admin",
                       session |-> s, cookie |-> auth.session,
                       admin |-> auth.user, user_id |-> user_id,
                       email |-> users[user_id].email,
                       admin_count |-> 0, status |-> 0]]
                /\ UNCHANGED <<sessions, resp>>

\* The admin count, on what is committed when it runs.
DemoteCount(r) ==
    LET req == [inflight[r] EXCEPT !.admin_count = AdminCount]
    IN  /\ inflight[r].pc = "demote_count"
        /\ UNCHANGED <<store, now>>
        /\ IF LastAdmin(req.admin_count)
           THEN /\ resp' = Response("demote_from_admin", 400, "last admin")
                /\ sessions' = [sessions EXCEPT ![req.session] = req.cookie]
                /\ inflight' = [inflight EXCEPT ![r] = Done(req, 400)]
           ELSE /\ inflight' = [inflight EXCEPT ![r] =
                                   [req EXCEPT !.pc = "demote_commit"]]
                /\ UNCHANGED <<sessions, resp>>

DemoteCommitRecount(r) ==
    LET req == inflight[r]
    IN  /\ req.pc = "demote_commit"
        /\ UNCHANGED <<nextUserId, books, suggestions, nextSuggestionId,
                       progress, accessCodes, meetings, now>>
        /\ IF req.user_id \notin DOMAIN users \/ req.admin \notin DOMAIN users
           THEN /\ resp' = Response("demote_from_admin", 500, "database error")
                /\ inflight' = [inflight EXCEPT ![r] = Done(req, 500)]
                /\ UNCHANGED <<users, audit, sessions>>
           ELSE IF LastAdmin(AdminCount)
           THEN /\ resp' = Response("demote_from_admin", 400, "last admin")
                /\ sessions' = [sessions EXCEPT ![req.session] = req.cookie]
                /\ inflight' = [inflight EXCEPT ![r] = Done(req, 400)]
                /\ UNCHANGED <<users, audit>>
           ELSE /\ users' = [users EXCEPT ![req.user_id].is_admin = FALSE]
                /\ audit' = DbAdd(audit,
                               AuditEntry(req.admin, "demote_admin", req.user_id,
                                          req.email, 0))
                /\ resp' = Response("demote_from_admin", 200, "ok")
                /\ sessions' = [sessions EXCEPT ![req.session] = req.cookie]
                /\ inflight' = [inflight EXCEPT ![r] = Done(req, 200)]

\* user.is_admin = False, the audit entry and db.commit(). The UPDATE of a
\* row deleted meanwhile matches no row and the INSERT of an audit entry
\* for a deleted admin breaks its foreign key: either raises out of the
\* handler, the transaction is rolled back and the answer is 500 without
\* a session cookie.
DemoteCommit(r) ==
    LET req == inflight[r]
    IN  /\ req.pc = "demote_commit"
        /\ UNCHANGED <<nextUserId, books, suggestions, nextSuggestionId,
                       progress, accessCodes, meetings, now>>
        /\ IF req.user_id \notin DOMAIN users \/ req.admin \notin DOMAIN users
           THEN /\ resp' = Response("demote_from_admin", 500, "database error")
                /\ inflight' = [inflight EXCEPT ![r] = Done(req, 500)]
                /\ UNCHANGED <<users, audit, sessions>>
           ELSE /\ users' = [users EXCEPT ![req.user_id].is_admin = FALSE]
                /\ audit' = DbAdd(audit,
                               AuditEntry(req.admin, "demote_admin", req.user_id,
                                          req.email, 0))
                /\ resp' = Response("demote_from_admin", 200, "ok")
                /\ sessions' = [sessions EXCEPT ![req.session] = req.cookie]
                /\ inflight' = [inflight EXCEPT ![r] = Done(req, 200)]

(***************************************************************************)
(* app/routers/admin.py: access code                                       *)
(***************************************************************************)
\* The single AccessCode row after its code has been set to new_code.
StoreCode(codes, new_code) ==
    IF codes = <<>> THEN <<new_code>> ELSE [codes EXCEPT ![1] = new_code]

\* An empty form field counts as missing.
UpdateAccessCode(s, new_code) ==
    LET auth == RequireAdmin(sessions[s])
    IN  /\ sessions' = [sessions EXCEPT ![s] = auth.session]
        /\ UNCHANGED <<users, nextUserId, books, suggestions, nextSuggestionId,
                       progress, meetings, now, inflight>>
        /\ IF auth.status # 200
           THEN /\ resp' = Response("update_access_code", auth.status, auth.detail)
                /\ UNCHANGED <<accessCodes, audit>>
           ELSE IF new_code = <<>>
           THEN /\ resp' = Response("update_access_code", 422, "validation error")
                /\ UNCHANGED <<accessCodes, audit>>
           ELSE /\ Len(audit) < MaxAudit
                /\ accessCodes' = StoreCode(accessCodes, new_code)
                /\ audit' = DbAdd(audit, AuditEntry(auth.user, "update_access_code",
                                                     0, new_code, 0))
                /\ resp' = Response("update_access_code", 200, "ok")

\* new_code is the outcome of generate_access_code().
GenerateAccessCodeEndpoint(s, new_code) ==
    LET auth == RequireAdmin(sessions[s])
    IN  /\ sessions' = [sessions EXCEPT ![s] = auth.session]
        /\ UNCHANGED <<users, nextUserId, books, suggestions, nextSuggestionId,
                       progress, meetings, now, inflight>>
        /\ IF auth.status # 200
           THEN /\ resp' = Response("generate_access_code", auth.status, auth.detail)
                /\ UNCHANGED <<accessCodes, audit>>
           ELSE /\ Len(audit) < MaxAudit
                /\ accessCodes' = StoreCode(accessCodes, new_code)
                /\ audit' = DbAdd(audit, AuditEntry(auth.user, "update_access_code",
                                                     0, new_code, 0))
                /\ resp' = Response("generate_access_code", 200, "ok")

(***************************************************************************)
(* app/routers/admin.py: meeting                                           *)
(***************************************************************************)
\* ZoneInfo keys known to the model and their offset from UTC in hours.
UtcOffset ==
    (<<"U", "T", "C">> :> 0) @@ (<<"J", "a", "p", "a", "n">> :> 9)

\* The single Meeting row after it has been set.
StoreMeeting(rows, start_at, meet_link) ==
    IF rows = <<>> THEN <<Meeting(start_at, meet_link)>>
    ELSE [rows EXCEPT ![1] = Meeting(start_at, meet_link)]

\* start_at_local is the outcome of strptime: whether the text parsed and the
\* naive local time in hours. Times are stored in UTC.
UpdateMeeting(s, start_at_local, timezone, meet_link) ==
    LET auth == RequireAdmin(sessions[s])
    IN  /\ sessions' = [sessions EXCEPT ![s] = auth.session]
        /\ UNCHANGED <<users, nextUserId, books, suggestions, nextSuggestionId,
                       progress, accessCodes, now, inflight>>
        /\ IF auth.status # 200
           THEN /\ resp' = Response("update_meeting", auth.status, auth.detail)
                /\ UNCHANGED <<meetings, audit>>
           ELSE IF timezone = <<>> \/ meet_link = <<>>
           THEN /\ resp' = Response("update_meeting", 422, "validation error")
                /\ UNCHANGED <<meetings, audit>>
           ELSE IF ~start_at_local.parsed
           THEN /\ resp' = Response("update_meeting", 400, "invalid datetime format")
                /\ UNCHANGED <<meetings, audit>>
           ELSE IF timezone \notin DOMAIN UtcOffset
           THEN /\ resp' = Response("update_meeting", 400, "invalid timezone")
                /\ UNCHANGED <<meetings, audit>>
           ELSE /\ Len(audit) < MaxAudit
                /\ meetings' = StoreMeeting(meetings,
                                   start_at_local.hours - UtcOffset[timezone], meet_link)
                /\ audit' = DbAdd(audit, AuditEntry(auth.user, "updatemeeting", 0,
                                                    timezone, start_at_local.hours))
                /\ resp' = Response("update_meeting", 200, "ok")

(***************************************************************************)
(* app/routers/profile.py                                                  *)
(***************************************************************************)
ChangePasswordEverywhere(s, current_password, new_password, salt) ==
    LET auth == GetCurrentUser(sessions[s])
    IN  /\ UNCHANGED <<nextUserId, books, suggestions, nextSuggestionId,
                       progress, audit, accessCodes, meetings, now, inflight>>
        /\ IF auth.status # 200
           THEN /\ resp' = Response("change_password", auth.status, auth.detail)
                /\ sessions' = [sessions EXCEPT ![s] = auth.session]
                /\ UNCHANGED users
           ELSE IF Len(new_password) < 8 \/ Len(new_password) > 100
           THEN /\ resp' = Response("change_password", 422, "validation error")
                /\ sessions' = [sessions EXCEPT ![s] = auth.session]
                /\ UNCHANGED users
           ELSE IF ~VerifyPassword(users[auth.user], current_password)
           THEN /\ resp' = Response("change_password", 400, "current password incorrect")
                /\ sessions' = [sessions EXCEPT ![s] = auth.session]
                /\ UNCHANGED users
           ELSE /\ users' = [users EXCEPT ![auth.user].password_hash =
                                HashPassword(new_password, salt)]
                /\ sessions' = [t \in SessionIds |->
                                IF Get(sessions[t], "user_id", NoUser) = auth.user
                                THEN EmptySession ELSE sessions[t]]
                /\ resp' = Response("change_password", 200, "ok")

ChangePassword(s, current_password, new_password, salt) ==
    LET auth == GetCurrentUser(sessions[s])
    IN  /\ UNCHANGED <<nextUserId, books, suggestions, nextSuggestionId,
                       progress, audit, accessCodes, meetings, now, inflight>>
        /\ IF auth.status # 200
           THEN /\ resp' = Response("change_password", auth.status, auth.detail)
                /\ sessions' = [sessions EXCEPT ![s] = auth.session]
                /\ UNCHANGED users
           ELSE IF Len(new_password) < 8 \/ Len(new_password) > 100
           THEN /\ resp' = Response("change_password", 422, "validation error")
                /\ sessions' = [sessions EXCEPT ![s] = auth.session]
                /\ UNCHANGED users
           ELSE IF ~VerifyPassword(users[auth.user], current_password)
           THEN /\ resp' = Response("change_password", 400, "current password incorrect")
                /\ sessions' = [sessions EXCEPT ![s] = auth.session]
                /\ UNCHANGED users
           ELSE /\ users' = [users EXCEPT ![auth.user].password_hash =
                                HashPassword(new_password, salt)]
                /\ sessions' = [sessions EXCEPT ![s] = EmptySession]
                /\ resp' = Response("change_password", 200, "ok")

ConfirmationText ==
    <<"d", "e", "l", "e", "t", "e", " ", "m", "y", " ", "a", "c", "c", "o", "u", "n", "t">>

OwnedBy(row, user_id) == row.user_id = user_id

\* db.delete(current_user): suggestions and progress rows go with the user,
\* audit rows keep their place with admin_id set to NULL.
DeleteAccount(s, password, confirmation) ==
    LET auth == GetCurrentUser(sessions[s])
        uid == auth.user
        Mine(row) == OwnedBy(row, uid)
    IN  /\ sessions' = [sessions EXCEPT ![s] = auth.session]
        /\ UNCHANGED <<nextUserId, books, nextSuggestionId, accessCodes, meetings, now, inflight>>
        /\ IF auth.status # 200
           THEN /\ resp' = Response("delete_account", auth.status, auth.detail)
                /\ UNCHANGED <<users, suggestions, progress, audit>>
           ELSE IF users[uid].is_admin /\ LastAdmin(AdminCount)
           THEN /\ resp' = Response("delete_account", 400, "only admin")
                /\ UNCHANGED <<users, suggestions, progress, audit>>
           ELSE IF ~VerifyPassword(users[uid], password)
           THEN /\ resp' = Response("delete_account", 400, "password incorrect")
                /\ UNCHANGED <<users, suggestions, progress, audit>>
           ELSE IF Lower(confirmation) # ConfirmationText
           THEN /\ resp' = Response("delete_account", 400, "confirmation mismatch")
                /\ UNCHANGED <<users, suggestions, progress, audit>>
           ELSE /\ users' = [u \in DOMAIN users \ {uid} |-> users[u]]
                /\ suggestions' = [g \in {x \in DOMAIN suggestions :
                                            suggestions[x].user_id # uid}
                                     |-> suggestions[g]]
                /\ progress' = DeleteRows(progress, Mine)
                /\ audit' = [i \in DOMAIN audit |->
                               IF audit[i].admin_id = uid
                               THEN [audit[i] EXCEPT !.admin_id = NoUser]
                               ELSE audit[i]]
                /\ resp' = Response("delete_account", 200, "ok")

\* delete_account as the database sees it: get_current_user loads the
\* member's row.
DeleteBegin(s, r, password, confirmation) ==
    LET auth == GetCurrentUser(sessions[s])
    IN  /\ FirstFree(r)
        /\ UNCHANGED <<store, now>>
        /\ IF auth.status # 200
           THEN /\ resp' = Response("delete_account", auth.status, auth.detail)
                /\ sessions' = [sessions EXCEPT ![s] = auth.session]
                /\ UNCHANGED inflight
           ELSE /\ inflight' = [inflight EXCEPT ![r] =
                      [pc |-> "delete_count", op |-> "delete_account",
                       session |-> s, cookie |-> auth.session,
                       user_id |-> auth.user, current_user |-> users[auth.user],
                       password |-> password, confirmation |-> confirmation,
                       admin_count |-> 0, status |-> 0]]
                /\ UNCHANGED <<sessions, resp>>

\* The admin count (for an admin), then the tests of password and
\* confirmation on the row loaded before.
DeleteCount(r) ==
    LET req == IF inflight[r].current_user.is_admin
               THEN [inflight[r] EXCEPT !.admin_count = AdminCount]
               ELSE inflight[r]
        refused(detail) ==
            /\ resp' = Response("delete_account", 400, detail)
            /\ sessions' = [sessions EXCEPT ![req.session] = req.cookie]
            /\ inflight' = [inflight EXCEPT ![r] = Done(req, 400)]
    IN  /\ inflight[r].pc = "delete_count"
        /\ UNCHANGED <<store, now>>
        /\ IF req.current_user.is_admin /\ LastAdmin(req.admin_count)
           THEN refused("only admin")
           ELSE IF ~VerifyPassword(req.current_user, req.password)
           THEN refused("password incorrect")
           ELSE IF Lower(req.confirmation) # ConfirmationText
           THEN refused("confirmation mismatch")
           ELSE /\ inflight' = [inflight EXCEPT ![r] =
                                   [req EXCEPT !.pc = "delete_commit"]]
                /\ UNCHANGED <<sessions, resp>>

\* db.delete(current_user) and db.commit(); a row deleted meanwhile is
\* deleted again without an error.
DeleteCommit(r) ==
    LET req == inflight[r]
        uid == req.user_id
        Mine(row) == OwnedBy(row, uid)
    IN  /\ req.pc = "delete_commit"
        /\ UNCHANGED <<nextUserId, books, nextSuggestionId, accessCodes, meetings, now>>
        /\ users' = [u \in DOMAIN users \ {uid} |-> users[u]]
        /\ suggestions' = [g \in {x \in DOMAIN suggestions :
                                    suggestions[x].user_id # uid}
                             |-> suggestions[g]]
        /\ progress' = DeleteRows(progress, Mine)
        /\ audit' = [i \in DOMAIN audit |->
                       IF audit[i].admin_id = uid
                       THEN [audit[i] EXCEPT !.admin_id = NoUser]
                       ELSE audit[i]]
        /\ resp' = Response("delete_account", 200, "ok")
        /\ sessions' = [sessions EXCEPT ![req.session] = req.cookie]
        /\ inflight' = [inflight EXCEPT ![r] = Done(req, 200)]

(***************************************************************************)
(* app/routers/books.py: update_progress as the database sees it           *)
(***************************************************************************)
\* get_current_user, the schema validation, the book query and the query for
\* the member's row of the book, on what is committed when they run.
UpdateProgressBegin(s, r, book_id, chapter) ==
    LET auth == GetCurrentUser(sessions[s])
    IN  /\ FirstFree(r)
        /\ UNCHANGED <<store, now>>
        /\ IF auth.status # 200
           THEN /\ resp' = Response("update_progress", auth.status, auth.detail)
                /\ sessions' = [sessions EXCEPT ![s] = auth.session]
                /\ UNCHANGED inflight
           ELSE IF ~ValidChapter(chapter)
           THEN /\ resp' = Response("update_progress", 500, "validation error")
                /\ UNCHANGED <<sessions, inflight>>
           ELSE IF book_id \notin DOMAIN books
           THEN /\ resp' = Response("update_progress", 404, "book not found")
                /\ sessions' = [sessions EXCEPT ![s] = auth.session]
                /\ UNCHANGED inflight
           ELSE /\ inflight' = [inflight EXCEPT ![r] =
                      [pc |-> "progress_commit", op |-> "update_progress",
                       session |-> s, cookie |-> auth.session,
                       user_id |-> auth.user, book_id |-> book_id,
                       chapter |-> chapter,
                       existing |-> ExistingProgress(progress, auth.user,
                                                     book_id) # {},
                       status |-> 0]]
                /\ UNCHANGED <<sessions, resp>>

\* The commit with no unique constraint on the table.
UpdateProgressCommitUnchecked(r) ==
    LET req == inflight[r]
        rows == ExistingProgress(progress, req.user_id, req.book_id)
    IN  /\ req.pc = "progress_commit"
        /\ BagCardinality(progress) < MaxProgressRows
        /\ UNCHANGED <<users, nextUserId, books, suggestions, nextSuggestionId,
                       audit, accessCodes, meetings, now>>
        /\ progress' = progress (+)
              SetToBag({ReadingProgress(req.user_id, req.book_id, req.chapter)})
        /\ resp' = Response("update_progress", 200, "ok")
        /\ sessions' = [sessions EXCEPT ![req.session] = req.cookie]
        /\ inflight' = [inflight EXCEPT ![r] = Done(req, 200)]

\* db.commit(): the UPDATE of the row that the query found, or the INSERT of
\* a new one. The table has UniqueConstraint('user_id', 'book_id'): an
\* INSERT for a pair that has a committed row by now raises IntegrityError,
\* which the general exception handler answers with 500, and an UPDATE of a
\* row deleted meanwhile matches nothing and fails in the same way.
UpdateProgressCommit(r) ==
    LET req == inflight[r]
        rows == ExistingProgress(progress, req.user_id, req.book_id)
    IN  /\ req.pc = "progress_commit"
        /\ UNCHANGED <<users, nextUserId, books, suggestions, nextSuggestionId,
                       audit, accessCodes, meetings, now>>
        /\ IF req.existing = (rows = {})
           THEN /\ resp' = Response("update_progress", 500, "server error")
                /\ UNCHANGED <<progress, sessions>>
                /\ inflight' = [inflight EXCEPT ![r] = Done(req, 500)]
           ELSE /\ progress' =
                      IF req.existing
                      THEN (progress (-) SetToBag(rows))
                           (+) SetToBag({[row EXCEPT !.chapter = req.chapter] :
                                            row \in rows})
                      ELSE progress (+)
                             SetToBag({ReadingProgress(req.user_id, req.book_id,
                                                       req.chapter)})
                /\ resp' = Response("update_progress", 200, "ok")
                /\ sessions' = [sessions EXCEPT ![req.session] = req.cookie]
                /\ inflight' = [inflight EXCEPT ![r] = Done(req, 200)]

(***************************************************************************)
(* app/routers/pages.py                                                    *)
(***************************************************************************)
\* GET /profile: the member's own page, or a redirect to the login page.
ProfilePage(s) ==
    /\ resp' = IF GetCurrentUserOptional(sessions[s]) = NoUser
               THEN Response("profile_page", 302, "login required")
               ELSE Response("profile_page", 200, "ok")
    /\ UNCHANGED <<store, sessions, now, inflight>>

(***************************************************************************)
(* Request inputs of the account operations                                *)
(***************************************************************************)
NewEmail == <<" ", "C", "@", "x", ".", "i", "o">>

WeakPassword == <<"p", "w">>

RegisterForms ==
    {[name |-> <<"<", "b", ">", "N", "e", " ">>, email |-> NewEmail,
      password |-> GoodPassword],
     [name |-> <<"N", "e">>, email |-> MemberEmail, password |-> GoodPassword],
     [name |-> <<"N", "e">>, email |-> NewEmail, password |-> WeakPassword],
     [name |-> <<"<", "b", ">", "N">>, email |-> NewEmail, password |-> GoodPassword],
     [name |-> <<>>, email |-> NewEmail, password |-> GoodPassword]}

LoginForms ==
    {[email |-> <<"A", "@", "x", ".", "i", "o", " ">>, password |-> GoodPassword],
     [email |-> MemberEmail, password |-> GoodPassword],
     [email |-> MemberEmail, password |-> OtherPassword],
     [email |-> NewEmail, password |-> GoodPassword],
     [email |-> <<"a", "@", "x">>, password |-> GoodPassword]}

UserIdInputs == 1..nextUserId

\* bcrypt.gensalt()
Salts == {"s1"}

PasswordForms ==
    {[current_password |-> GoodPassword, new_password |-> GoodPassword],
     [current_password |-> OtherPassword, new_password |-> GoodPassword],
     [current_password |-> GoodPassword, new_password |-> WeakPassword]}

DeleteForms ==
    {[password |-> GoodPassword,
      confirmation |-> <<"D", "e", "l", "e", "t", "e", " ", "m", "y", " ",
                         "a", "c", "c", "o", "u", "n", "t">>],
     [password |-> GoodPassword, confirmation |-> <<"d", "e", "l", "e", "t", "e">>],
     [password |-> OtherPassword, confirmation |-> ConfirmationText]}

CodeInputs == {<<" ", "t", "1">>, <<"T", "2">>, <<" ">>}

MeetingForms ==
    {[start_at_local |-> [parsed |-> TRUE, hours |-> 30],
      timezone |-> <<"J", "a", "p", "a", "n">>, meet_link |-> <<"m">>],
     [start_at_local |-> [parsed |-> FALSE, hours |-> 0],
      timezone |-> <<"U", "T", "C">>, meet_link |-> <<"m">>],
     [start_at_local |-> [parsed |-> TRUE, hours |-> 30],
      timezone |-> <<"X">>, meet_link |-> <<"m">>]}

NewCodeInputs == {<<"t", "2">>, <<" ", "T", "1">>, <<>>}

\* generate_access_code(): 8 characters of A-Z and 0-9
GeneratedCodes == {<<"T", "W", "2", "0", "2", "4", "D", "E">>}

VerifyInputs == CodeInputs \cup {<<"t", "w", "2", "0", "2", "4", "d", "e", " ">>}

(***************************************************************************)
(* The store as seed.py leaves it                                          *)
(***************************************************************************)
SeedUsers ==
    (1 :> User(<<"A", "d">>, AdminEmail, HashPassword(GoodPassword, "s1"), TRUE))
    @@ (2 :> User(<<"T", "e">>, MemberEmail, HashPassword(GoodPassword, "s1"), FALSE))

SeedBooks(first_status) ==
    (1 :> [Book(<<"p">>, <<"u", "1">>, NoneStr, first_status) EXCEPT
              !.total_chapters = 10,
              !.current_chapters = IF first_status = "current"
                                   THEN <<"1", "-", "2">> ELSE NoneStr])
    @@ (2 :> Book(<<"q">>, <<"u", "2">>, NoneStr, "queued"))

InitStore ==
    /\ users = SeedUsers
    /\ nextUserId = 3
    /\ accessCodes = <<(<<"T", "1">>)>>
    /\ audit = <<>>
    /\ meetings = <<>>
    /\ inflight = [r \in Requests |-> Idle]
    /\ now = 1
    /\ resp = Response("none", 0, "none")

(***************************************************************************)
(* Book lifecycle: the admin, a member and any anonymous visitors send     *)
(* requests one after the other.                                           *)
(***************************************************************************)
InitBooks ==
    /\ InitStore
    /\ \E st \in {"current", "queued"} : books = SeedBooks(st)
    /\ suggestions = (1 :> BookSuggestion(<<"s">>, <<"u", "3">>, 2))
    /\ nextSuggestionId = 2
    /\ progress = EmptyBag
    /\ sessions = [s \in SessionIds |->
                     IF s \in DOMAIN SeedUsers
                     THEN [k \in {"user_id", "user_name", "is_admin",
                                  "session_created_at"} |->
                             CASE k = "user_id" -> s
                               [] k = "user_name" -> SeedUsers[s].name
                               [] k = "is_admin" -> SeedUsers[s].is_admin
                               [] OTHER -> 1]
                     ELSE EmptySession]

NextBooks ==
    \/ \E s \in SessionIds, b \in BookIdInputs, cv \in SetCurrentCovers :
          SetCurrentBook(s, b, <<"1">>, cv)
    \/ \E s \in SessionIds : CompleteCurrentBook(s)
    \/ \E s \in SessionIds, form \in UpdateForms : UpdateCurrentBook(s, form)
    \/ \E s \in SessionIds, g \in SuggestionIdInputs, cv \in ApproveCovers :
          ApproveSuggestion(s, g, cv)
    \/ \E s \in SessionIds, g \in SuggestionIdInputs : RejectSuggestion(s, g)

SpecBooks == InitBooks /\ [][NextBooks]_vars

(***************************************************************************)
(* Suggestions: members suggest, the admin approves and rejects.           *)
(***************************************************************************)
NextSuggestions ==
    \/ \E s \in SessionIds, title \in TitleInputs :
          CreateSuggestion(s, title, <<"u", "4">>)
    \/ \E s \in SessionIds, g \in SuggestionIdInputs, cv \in ApproveCovers :
          ApproveSuggestion(s, g, cv)
    \/ \E s \in SessionIds, g \in SuggestionIdInputs : RejectSuggestion(s, g)

SpecSuggestions == InitBooks /\ [][NextSuggestions]_vars

(***************************************************************************)
(* Reading progress around the completion of the current book.             *)
(***************************************************************************)
NextProgress ==
    \/ \E s \in SessionIds, b \in BookIdInputs, ch \in ChapterInputs :
          UpdateProgress(s, b, ch)
    \/ \E s \in SessionIds : CompleteCurrentBook(s)

SpecProgress == InitBooks /\ [][NextProgress]_vars

(***************************************************************************)
(* Accounts and admin rights: the browsers of the seeded members, whose    *)
(* sessions carry session_created_at, promote, demote, change passwords    *)
(* and delete accounts, and the first of them also registers and logs in.  *)
(***************************************************************************)
AccountSession == 1

\* The session of seeded member u with session_created_at on day 1, as
\* get_current_user requires it.
LoggedIn(u) ==
    [k \in {"user_id", "user_name", "is_admin", "session_created_at"} |->
       CASE k = "user_id" -> u
         [] k = "user_name" -> SeedUsers[u].name
         [] k = "is_admin" -> SeedUsers[u].is_admin
         [] OTHER -> 1]

InitAdmins ==
    /\ InitStore
    /\ books = SeedBooks("current")
    /\ suggestions = (1 :> BookSuggestion(<<"s">>, <<"u", "3">>, 2))
    /\ nextSuggestionId = 2
    /\ progress = SetToBag({ReadingProgress(1, 1, 2), ReadingProgress(2, 1, 3)})
    /\ sessions = [s \in SessionIds |->
                     IF s \in DOMAIN SeedUsers THEN LoggedIn(s) ELSE EmptySession]

NextAdmins ==
    \/ \E form \in RegisterForms, salt \in Salts :
          Register(AccountSession, form.name, form.email, form.password, salt)
    \/ \E form \in LoginForms : Login(AccountSession, form.email, form.password)
    \/ \E s \in SessionIds, u \in UserIdInputs : PromoteToAdmin(s, u)
    \/ \E s \in SessionIds, u \in UserIdInputs : DemoteFromAdmin(s, u)
    \/ \E s \in SessionIds, form \in PasswordForms, salt \in Salts :
          ChangePassword(s, form.current_password, form.new_password, salt)
    \/ \E s \in SessionIds, form \in DeleteForms :
          DeleteAccount(s, form.password, form.confirmation)

SpecAdmins == InitAdmins /\ [][NextAdmins]_vars

(***************************************************************************)
(* Admin rights across sessions: the admin's browser, the browser of a     *)
(* member who has just logged in and anonymous ones send admin requests    *)
(* while rights are granted and withdrawn, accounts deleted and days pass. *)
(***************************************************************************)
TickDays == 4

\* Time passes between requests.
Tick ==
    /\ now + TickDays <= MaxNow
    /\ now' = now + TickDays
    /\ resp' = Response("none", 0, "none")
    /\ UNCHANGED <<store, sessions, inflight>>

\* The session of seeded member u as login leaves it.
AfterLogin(u) == RegenerateSession(EmptySession, u, SeedUsers[u])

InitAccess ==
    /\ InitStore
    /\ books = SeedBooks("current")
    /\ suggestions = (1 :> BookSuggestion(<<"s">>, <<"u", "3">>, 2))
    /\ nextSuggestionId = 2
    /\ progress = SetToBag({ReadingProgress(2, 1, 3)})
    /\ sessions = [s \in SessionIds |->
                     CASE s = 1 -> LoggedIn(1)
                       [] s = 2 -> LoggedIn(2)
                       [] OTHER -> EmptySession]

NextAccess ==
    \/ \E s \in SessionIds : GetAdminStats(s)
    \/ \E s \in SessionIds, u \in UserIdInputs : PromoteToAdmin(s, u)
    \/ \E s \in SessionIds, u \in UserIdInputs : DemoteFromAdmin(s, u)
    \/ \E s \in SessionIds : CompleteCurrentBook(s)
    \/ \E s \in SessionIds : DeleteAccount(s, GoodPassword, ConfirmationText)
    \/ \E s \in SessionIds : Logout(s)
    \/ \E s \in SessionIds : Login(s, MemberEmail, GoodPassword)
    \/ Tick

SpecAccess == InitAccess /\ [][NextAccess]_vars

(***************************************************************************)
(* Access levels of one browser: it starts with a session of the seeded    *)
(* member that carries session_created_at, verifies the access code, logs  *)
(* in and out and reads at guest, member and admin level while days pass.  *)
(***************************************************************************)
GuestLogins ==
    {[email |-> <<"A", "@", "x", ".", "i", "o", " ">>, password |-> GoodPassword],
     [email |-> MemberEmail, password |-> GoodPassword],
     [email |-> MemberEmail, password |-> OtherPassword]}

InitGuest ==
    /\ InitStore
    /\ books = SeedBooks("current")
    /\ suggestions = (1 :> BookSuggestion(<<"s">>, <<"u", "3">>, 2))
    /\ nextSuggestionId = 2
    /\ progress = SetToBag({ReadingProgress(2, 1, 3)})
    /\ sessions = [s \in SessionIds |->
                     IF s = AccountSession THEN LoggedIn(2) ELSE EmptySession]

NextGuest ==
    \/ \E code \in CodeInputs : VerifyCode(AccountSession, code)
    \/ \E form \in GuestLogins : Login(AccountSession, form.email, form.password)
    \/ Logout(AccountSession)
    \/ GetCurrentBook(AccountSession)
    \/ GetQueuedBooks(AccountSession)
    \/ GetPastBooks(AccountSession)
    \/ GetCommunityProgress(AccountSession)
    \/ GetMe(AccountSession)
    \/ GetAdminStats(AccountSession)
    \/ Tick

SpecGuest == InitGuest /\ [][NextGuest]_vars

(***************************************************************************)
(* Lifetime of a session: one browser verifies the code, logs in, sends    *)
(* member-level requests and opens the profile page while days pass.       *)
(***************************************************************************)
NextLifetime ==
    \/ \E code \in CodeInputs : VerifyCode(AccountSession, code)
    \/ \E form \in GuestLogins : Login(AccountSession, form.email, form.password)
    \/ GetMe(AccountSession)
    \/ GetAdminStats(AccountSession)
    \/ ProfilePage(AccountSession)
    \/ Tick

SpecLifetime == InitGuest /\ [][NextLifetime]_vars

(***************************************************************************)
(* Signing in: one browser verifies the code, registers, logs in as one    *)
(* member or another, sends a member-level request and logs out.           *)
(***************************************************************************)
NextSignIn ==
    \/ \E code \in CodeInputs : VerifyCode(AccountSession, code)
    \/ \E form \in RegisterForms, salt \in Salts :
          Register(AccountSession, form.name, form.email, form.password, salt)
    \/ \E form \in LoginForms : Login(AccountSession, form.email, form.password)
    \/ GetMe(AccountSession)
    \/ Logout(AccountSession)

SpecSignIn == InitGuest /\ [][NextSignIn]_vars

(***************************************************************************)
(* Login attempts: one browser verifies the code, logs in with known and   *)
(* unknown emails and right and wrong passwords, changes the password and  *)
(* logs out while days pass. A third member's row holds a hash that hash_password did not  *)
(* write and bcrypt cannot read.                                           *)
(***************************************************************************)
LegacyEmail == <<"d", "@", "x", ".", "i", "o">>

LegacyUsers == SeedUsers @@ (3 :> User(<<"L", "e">>, LegacyEmail, MalformedHash, FALSE))

LoginInputs ==
    LoginForms \cup {[email |-> LegacyEmail, password |-> GoodPassword]}

InitLogin ==
    /\ users = LegacyUsers
    /\ nextUserId = 4
    /\ accessCodes = <<(<<"T", "1">>)>>
    /\ audit = <<>>
    /\ meetings = <<>>
    /\ inflight = [r \in Requests |-> Idle]
    /\ now = 1
    /\ resp = Response("none", 0, "none")
    /\ books = SeedBooks("current")
    /\ suggestions = (1 :> BookSuggestion(<<"s">>, <<"u", "3">>, 2))
    /\ nextSuggestionId = 2
    /\ progress = SetToBag({ReadingProgress(2, 1, 3)})
    /\ sessions = [s \in SessionIds |-> EmptySession]

NextLogin ==
    \/ \E code \in CodeInputs : VerifyCode(AccountSession, code)
    \/ \E form \in LoginInputs : Login(AccountSession, form.email, form.password)
    \/ \E form \in PasswordForms, salt \in Salts :
          ChangePassword(AccountSession, form.current_password,
                         form.new_password, salt)
    \/ GetMe(AccountSession)
    \/ Logout(AccountSession)
    \/ Tick

SpecLogin == InitLogin /\ [][NextLogin]_vars

(***************************************************************************)
(* The access code: the admin replaces it by hand or by a generated one    *)
(* while browsers submit codes.                                            *)
(***************************************************************************)
NextCodes ==
    \/ \E s \in SessionIds, code \in VerifyInputs : VerifyCode(s, code)
    \/ \E s \in SessionIds, new_code \in NewCodeInputs : UpdateAccessCode(s, new_code)
    \/ \E s \in SessionIds, new_code \in GeneratedCodes :
          GenerateAccessCodeEndpoint(s, new_code)

SpecCodes == InitAccess /\ [][NextCodes]_vars

(***************************************************************************)
(* The audit log: the admin's browser and a member's browser send every    *)
(* privileged request, and the admin may delete their own account.         *)
(***************************************************************************)
PrivilegedRequest(s) ==
    \/ \E new_code \in {<<"t", "2">>, <<>>} : UpdateAccessCode(s, new_code)
    \/ \E new_code \in GeneratedCodes : GenerateAccessCodeEndpoint(s, new_code)
    \/ \E form \in UpdateForms : UpdateCurrentBook(s, form)
    \/ \E b \in BookIdInputs : SetCurrentBook(s, b, <<"1">>, NoneStr)
    \/ CompleteCurrentBook(s)
    \/ \E form \in MeetingForms :
          UpdateMeeting(s, form.start_at_local, form.timezone, form.meet_link)
    \/ \E g \in SuggestionIdInputs : ApproveSuggestion(s, g, <<"c">>)
    \/ \E g \in SuggestionIdInputs : RejectSuggestion(s, g)
    \/ \E u \in UserIdInputs : PromoteToAdmin(s, u)
    \/ \E u \in UserIdInputs : DemoteFromAdmin(s, u)

NextAudit ==
    \/ \E s \in SessionIds : PrivilegedRequest(s)
    \/ \E s \in SessionIds : DeleteAccount(s, GoodPassword, ConfirmationText)

InitAudit == InitBooks /\ books = SeedBooks("queued")

SpecAudit == InitAudit /\ [][NextAudit]_vars

(***************************************************************************)
(* Community statistics: the admin and a member record their progress in   *)
(* the current and in the queued book and anybody reads the statistics.    *)
(***************************************************************************)
CommunityChapters == {0 - 1, 0, 2, 9, 10}

InitCommunity == InitBooks /\ books = SeedBooks("current")

NextCommunity ==
    \/ \E s \in SessionIds, b \in DOMAIN books, ch \in CommunityChapters :
          UpdateProgress(s, b, ch)
    \/ \E s \in SessionIds : GetCommunityProgress(s)
    \/ \E s \in SessionIds : CompleteCurrentBook(s)

SpecCommunity == InitCommunity /\ [][NextCommunity]_vars

(***************************************************************************)
(* Logging out: the browser of the access levels, which may also register. *)
(***************************************************************************)
NextLogout ==
    \/ NextGuest
    \/ \E form \in RegisterForms, salt \in Salts :
          Register(AccountSession, form.name, form.email, form.password, salt)

SpecLogout == InitGuest /\ [][NextLogout]_vars

(***************************************************************************)
(* Deleted accounts: the member is logged in on two browsers, the first    *)
(* with a verified code and session_created_at, the second as login left   *)
(* it, and deletes the account while days pass and requests of every level *)
(* go on.                                                                  *)
(***************************************************************************)
VerifiedSession == Put(Put(EmptySession, "code_verified", TRUE), "verified_at", 1)

InitDeleted ==
    /\ InitStore
    /\ books = SeedBooks("current")
    /\ suggestions = (1 :> BookSuggestion(<<"s">>, <<"u", "3">>, 2))
    /\ nextSuggestionId = 2
    /\ progress = SetToBag({ReadingProgress(2, 1, 3)})
    /\ sessions = [s \in SessionIds |->
                     CASE s = 1 -> Put(RegenerateSession(VerifiedSession, 2,
                                                         SeedUsers[2]),
                                       "session_created_at", 1)
                       [] s = 2 -> AfterLogin(2)
                       [] OTHER -> LoggedIn(1)]

MemberRequest(s) ==
    \/ GetMe(s)
    \/ GetAdminStats(s)
    \/ DeleteAccount(s, GoodPassword, ConfirmationText)

NextDeleted ==
    \/ \E s \in SessionIds : MemberRequest(s)
    \/ \E s \in SessionIds : GetCurrentBook(s)
    \/ \E s \in SessionIds, salt \in Salts :
          Register(s, <<"N", "e">>, NewEmail, GoodPassword, salt)
    \/ Tick

SpecDeleted == InitDeleted /\ [][NextDeleted]_vars

(***************************************************************************)
(* Concurrent set-current requests: the steps of several requests          *)
(* interleave, and the current book may be completed in between.           *)
(***************************************************************************)
InitRace == InitBooks /\ books = SeedBooks("queued")

NextRace ==
    \/ \E s \in SessionIds, r \in Requests, b \in BookIdInputs :
          SetCurrentBookBegin(s, r, b, <<"1">>, NoneStr)
    \/ \E r \in Requests : SetCurrentBookLookup(r)
    \/ \E r \in Requests : SetCurrentBookCommit(r)
    \/ \E s \in SessionIds : CompleteCurrentBook(s)

SpecRace == InitRace /\ [][NextRace]_vars

(***************************************************************************)
(* Concurrent reviews of the seeded suggestion: approvals whose steps      *)
(* interleave, rejections, and the deletion of the member's account (and   *)
(* with it of the suggestion).                                             *)
(***************************************************************************)
NextApprove ==
    \/ \E s \in SessionIds, r \in Requests, g \in SuggestionIdInputs,
          cover \in ApproveCovers :
          ApproveBegin(s, r, g, cover)
    \/ \E r \in Requests : ApproveCommit(r)
    \/ \E s \in SessionIds, g \in SuggestionIdInputs : RejectSuggestion(s, g)
    \/ \E s \in SessionIds : DeleteAccount(s, GoodPassword, ConfirmationText)

SpecApprove == InitRace /\ [][NextApprove]_vars

(***************************************************************************)
(* Concurrent demotions and account deletions, from the state in which     *)
(* the seeded admin has promoted the seeded member: two admins, each       *)
(* logged in on one browser.                                               *)
(***************************************************************************)
TwoAdmins == [SeedUsers EXCEPT ![2].is_admin = TRUE]

InitLastAdmin ==
    /\ users = TwoAdmins
    /\ nextUserId = 3
    /\ accessCodes = <<(<<"T", "1">>)>>
    /\ audit = <<AuditEntry(1, "promote_admin", 2, MemberEmail, 0)>>
    /\ meetings = <<>>
    /\ inflight = [r \in Requests |-> Idle]
    /\ now = 1
    /\ resp = Response("none", 0, "none")
    /\ books = SeedBooks("current")
    /\ suggestions = (1 :> BookSuggestion(<<"s">>, <<"u", "3">>, 2))
    /\ nextSuggestionId = 2
    /\ progress = SetToBag({ReadingProgress(2, 1, 3)})
    /\ sessions = [s \in SessionIds |->
                     IF s \in DOMAIN TwoAdmins
                     THEN Put(RegenerateSession(EmptySession, s, TwoAdmins[s]),
                              "session_created_at", 1)
                     ELSE EmptySession]

NextLastAdmin ==
    \/ \E s \in SessionIds, r \in Requests, u \in DOMAIN TwoAdmins :
          DemoteBegin(s, r, u)
    \/ \E r \in Requests : DemoteCount(r)
    \/ \E r \in Requests : DemoteCommit(r)
    \/ \E s \in SessionIds, r \in Requests :
          DeleteBegin(s, r, GoodPassword, ConfirmationText)
    \/ \E r \in Requests : DeleteCount(r)
    \/ \E r \in Requests : DeleteCommit(r)

SpecLastAdmin == InitLastAdmin /\ [][NextLastAdmin]_vars

(***************************************************************************)
(* Interleaved progress updates: the seeded members report their chapter   *)
(* on the seeded books, possibly twice at the same time.                   *)
(***************************************************************************)
UpsertForms ==
    {[book_id |-> 1, chapter |-> 0], [book_id |-> 1, chapter |-> 3],
     [book_id |-> 1, chapter |-> 0 - 2], [book_id |-> NextBookId, chapter |-> 0]}

NextUpsert ==
    \/ \E s \in SessionIds, r \in Requests, form \in UpsertForms :
          UpdateProgressBegin(s, r, form.book_id, form.chapter)
    \/ \E r \in Requests : UpdateProgressCommit(r)

SpecUpsert == InitBooks /\ [][NextUpsert]_vars

(***************************************************************************)
(* The access code round trip: the admin stores a code by hand or has one  *)
(* generated, and a browser submits the code exactly as it is stored.      *)
(***************************************************************************)
NextRoundTrip ==
    \/ \E s \in SessionIds, new_code \in NewCodeInputs : UpdateAccessCode(s, new_code)
    \/ \E s \in SessionIds, new_code \in GeneratedCodes :
          GenerateAccessCodeEndpoint(s, new_code)
    \/ \E s \in SessionIds : VerifyCode(s, accessCodes[1])
    \/ \E s \in SessionIds : Logout(s)

SpecRoundTrip == InitAccess /\ [][NextRoundTrip]_vars

(***************************************************************************)
(* One member logged in on every browser, the sessions created on          *)
(* different days: the browsers change the password, log in again and read *)
(* the member's data while days pass.                                      *)
(***************************************************************************)
PasswordChanges ==
    {[current_password |-> GoodPassword, new_password |-> OtherPassword],
     [current_password |-> OtherPassword, new_password |-> GoodPassword],
     [current_password |-> GoodPassword, new_password |-> WeakPassword]}

InitPassword ==
    /\ users = SeedUsers
    /\ nextUserId = 3
    /\ accessCodes = <<(<<"T", "1">>)>>
    /\ audit = <<>>
    /\ meetings = <<>>
    /\ inflight = [r \in Requests |-> Idle]
    /\ now = 1 + TickDays
    /\ resp = Response("none", 0, "none")
    /\ books = SeedBooks("current")
    /\ suggestions = (1 :> BookSuggestion(<<"s">>, <<"u", "3">>, 2))
    /\ nextSuggestionId = 2
    /\ progress = SetToBag({ReadingProgress(2, 1, 3)})
    /\ sessions = [s \in SessionIds |->
                     IF s = 1 THEN LoggedIn(2)
                     ELSE Put(LoggedIn(2), "session_created_at", 1 + TickDays)]

NextPassword ==
    \/ \E s \in SessionIds, form \in PasswordChanges, salt \in Salts :
          ChangePassword(s, form.current_password, form.new_password, salt)
    \/ \E s \in SessionIds, password \in {GoodPassword, OtherPassword} :
          Login(s, MemberEmail, password)
    \/ \E s \in SessionIds : GetMe(s)
    \/ Tick

SpecPassword == InitPassword /\ [][NextPassword]_vars

(***************************************************************************)
(* Properties                                                              *)
(***************************************************************************)
\* The step is a request to handler op that passed its authentication and
\* authorisation dependency.
Served(op) == resp'.op = op /\ resp'.status \notin {401, 403}

Answered(op, status) == resp.op = op /\ resp.status = status

PositiveRows(rows, user_id, book_id) ==
    LET P(r) == r.user_id = user_id /\ r.book_id = book_id /\ r.chapter > 0
    IN  CountRows(rows, P)

CompletedBy(cb) ==
    /\ books'[cb].status = "completed"
    /\ books'[cb].completed_date # NoTime
    /\ books'[cb].current_chapters = NoneStr
    /\ \A r \in BagToSet(progress) \cup BagToSet(progress') :
          CopiesIn(r, progress') =
             IF r.book_id = cb /\ r.chapter > 0 THEN 0
             ELSE IF r.book_id = cb /\ r.chapter = -1
             THEN CopiesIn(r, progress) + PositiveRows(progress, r.user_id, cb)
             ELSE CopiesIn(r, progress)

AllowedBookStep(old, new) ==
    \/ new = old
    \/ old = "queued" /\ new = "current"
    \/ old = "current" /\ new = "completed"

StatusMonotone ==
    \A b \in DOMAIN books :
       b \in DOMAIN books' /\ AllowedBookStep(books[b].status, books'[b].status)

SetCurrentOnlyQueued(refusal(_)) ==
    Served("set_current_book") =>
       \A s \in SessionIds, b \in DOMAIN books, cv \in SetCurrentCovers :
          SetCurrentBook(s, b, <<"1">>, cv)
             => IF books[b].status = "queued"
                THEN resp'.status \in {200, 400}
                ELSE resp'.status = refusal(books) /\ UNCHANGED books

UpdateKeepsStatus ==
    Served("update_current_book")
       => \A b \in DOMAIN books : books'[b].status = books[b].status

Always404(bs) == 404

RefusalByState(bs) == IF CurrentBooks(bs) # {} THEN 400 ELSE 404

AllowedSuggestionStep(old, new) ==
    \/ new = old
    \/ old = "pending" /\ new \in {"approved", "rejected"}

Decided(g) == g \in DOMAIN suggestions /\ suggestions[g].status # "pending"

ApprovedCount == Cardinality({g \in DOMAIN suggestions : suggestions[g].status = "approved"})

PairRows(rows, user_id, book_id) ==
    LET P(r) == r.user_id = user_id /\ r.book_id = book_id IN CountRows(rows, P)

Caller(s) == GetCurrentUser(sessions[s]).user

RightsUntouched == users' = users /\ audit' = audit

AdminOps ==
    {"get_admin_stats", "promote_to_admin", "demote_from_admin",
     "complete_current_book"}

AdminRequest(s) ==
    \/ GetAdminStats(s)
    \/ CompleteCurrentBook(s)
    \/ \E u \in UserIdInputs : PromoteToAdmin(s, u) \/ DemoteFromAdmin(s, u)

GuestOps ==
    {"get_current_book", "get_queued_books", "get_past_books",
     "get_community_progress"}

GuestRequest(s) ==
    \/ GetCurrentBook(s)
    \/ GetQueuedBooks(s)
    \/ GetPastBooks(s)
    \/ GetCommunityProgress(s)

\* C10: each of the four guest-level endpoints answers 200 exactly when the
\* session has code_verified true or holds a user id, and 403 otherwise; so a
\* session that passes the member or the admin check always passes the guest
\* check as well.
C10_GuestLevel ==
    /\ [](\A s \in SessionIds :
             (GetCurrentUser(sessions[s]).status = 200
                 \/ RequireAdmin(sessions[s]).status = 200)
                => RequireCodeVerified(sessions[s]) = 200)
    /\ [][resp'.op \in GuestOps =>
            \A s \in SessionIds :
               GuestRequest(s) =>
                  /\ resp'.status = 200 <=>
                        \/ Get(sessions[s], "code_verified", FALSE)
                        \/ "user_id" \in DOMAIN sessions[s]
                  /\ resp'.status \in {200, 403}]_vars

\* A guest-level read is served to a logged-in session that never verified
\* the access code.
C10_Witness ==
    /\ resp.op \in GuestOps
    /\ resp.status = 200
    /\ "user_id" \in DOMAIN sessions[AccountSession]
    /\ "code_verified" \notin DOMAIN sessions[AccountSession]

(***************************************************************************)
(* Properties of sessions and registration                                 *)
(***************************************************************************)
MemberOps == {"get_me", "get_admin_stats", "profile_page"}

AuthenticatedKeys == {"user_id", "user_name", "is_admin"}

\* The session holds the authenticated fields of member uid of the store us,
\* code_verified only as a flag that was true in session old, and nothing else.
FreshSessionOf(new, old, us, uid) ==
    /\ AuthenticatedKeys \subseteq DOMAIN new
    /\ DOMAIN new \subseteq AuthenticatedKeys \cup {"code_verified"}
    /\ uid \in DOMAIN us
    /\ new["user_id"] = uid
    /\ new["user_name"] = us[uid].name
    /\ new["is_admin"] = us[uid].is_admin
    /\ "code_verified" \in DOMAIN new
          => new["code_verified"] = TRUE /\ Get(old, "code_verified", FALSE) = TRUE

\* C12: after a successful login or registration the session holds user_id,
\* user_name and is_admin of the member just authenticated, code_verified =
\* true only if it was true before the request, and no other key of the
\* previous session.
C12_SessionRegenerated ==
    [][(resp'.op \in {"login", "register"} /\ resp'.status = 200) =>
         LET old == sessions[AccountSession]
             new == sessions'[AccountSession]
         IN  /\ \A form \in LoginForms :
                   Login(AccountSession, form.email, form.password)
                      => \E u \in UsersByEmail(Lower(Strip(form.email))) :
                            /\ VerifyPassword(users[u], form.password)
                            /\ FreshSessionOf(new, old, users', u)
             /\ \A form \in RegisterForms, salt \in Salts :
                   Register(AccountSession, form.name, form.email, form.password, salt)
                      => /\ nextUserId \notin DOMAIN users
                         /\ FreshSessionOf(new, old, users', nextUserId)]_vars

\* A verified browser logged in as the admin has registered a new member.
C12_Witness ==
    /\ resp = Response("register", 200, "ok")
    /\ sessions[AccountSession] =
          [user_id |-> 3, user_name |-> <<"N", "e">>, is_admin |-> FALSE,
           code_verified |-> TRUE]
    /\ users[3].email = <<"c", "@", "x", ".", "i", "o">>

RegisterFieldsPresent(form) ==
    form.name # <<>> /\ form.email # <<>> /\ form.password # <<>>

\* C14: in every reachable state no two members have the same email after
\* lower-casing, and a registration (from a session allowed to register)
\* whose email is already registered creates no member and leaves the
\* session unchanged; it is answered 400 when name, email and password are
\* all present (422 by form validation otherwise).
C14_UniqueEmail ==
    /\ [](\A u1, u2 \in DOMAIN users :
            Lower(users[u1].email) = Lower(users[u2].email) => u1 = u2)
    /\ [][resp'.op = "register" =>
            \A form \in RegisterForms, salt \in Salts :
               (/\ Register(AccountSession, form.name, form.email, form.password, salt)
                /\ HasAccess(sessions[AccountSession])
                /\ \E u \in DOMAIN users :
                      Lower(users[u].email) = Lower(Strip(form.email)))
                  => /\ resp'.status = IF RegisterFieldsPresent(form) THEN 400 ELSE 422
                     /\ UNCHANGED <<users, nextUserId, sessions>>]_vars

\* The email of the member registered before has been submitted again, in
\* another letter case, and refused.
C14_Witness ==
    /\ resp = Response("register", 400, "email already registered")
    /\ 3 \in DOMAIN users
    /\ users[3].email = Lower(Strip(NewEmail))
    /\ users[3].email # Strip(NewEmail)

\* C15: a register request (name, email and password present) from a session
\* with neither code_verified nor a user id is answered 403 whatever the
\* fields hold, creates no member and leaves the session unchanged; every
\* member created by register has is_admin = false.
C15_RegisterNeedsAccess ==
    [][resp'.op = "register" =>
         \A form \in RegisterForms, salt \in Salts :
            Register(AccountSession, form.name, form.email, form.password, salt)
               => /\ (/\ RegisterFieldsPresent(form)
                      /\ ~Get(sessions[AccountSession], "code_verified", FALSE)
                      /\ "user_id" \notin DOMAIN sessions[AccountSession])
                        => /\ resp'.status = 403
                           /\ UNCHANGED <<users, nextUserId, sessions>>
                  /\ users' # users
                        => /\ DOMAIN users' = DOMAIN users \cup {nextUserId}
                           /\ nextUserId \notin DOMAIN users
                           /\ users'[nextUserId].is_admin = FALSE
                           /\ \A u \in DOMAIN users : users'[u] = users[u]]_vars

\* A browser that has done nothing yet has been refused registration.
C15_Witness ==
    /\ resp = Response("register", 403, "verify access code first")
    /\ sessions[AccountSession] = EmptySession
    /\ users = SeedUsers

PrivilegedOps ==
    {"update_access_code", "generate_access_code", "update_current_book",
     "set_current_book", "complete_current_book", "update_meeting",
     "approve_suggestion", "reject_suggestion", "promote_to_admin",
     "demote_from_admin"}

SameRecord(old, new) ==
    /\ new.action = old.action
    /\ new.target_id = old.target_id
    /\ new.target_text = old.target_text
    /\ new.target_count = old.target_count

\* C16: every successful privileged mutation appends exactly one AuditEntry
\* naming the acting admin in the same step as the mutation, every refused
\* admin request and every other operation appends none, and no operation
\* removes an entry or changes its action tag or target; the log starts
\* empty, so its length is the number of successful privileged mutations.
C16_AuditTrail ==
    [][LET n == Len(audit)
       IN  /\ Len(audit') >= n
           /\ \A i \in 1 .. n : SameRecord(audit[i], audit'[i])
           /\ IF resp'.op \in PrivilegedOps /\ resp'.status = 200
              THEN /\ Len(audit') = n + 1
                   /\ \A s \in SessionIds :
                         PrivilegedRequest(s)
                            => /\ audit'[n + 1].admin_id = Caller(s)
                               /\ users[Caller(s)].is_admin
              ELSE /\ Len(audit') = n
                   /\ resp'.op \in PrivilegedOps
                         => UNCHANGED <<users, books, suggestions, accessCodes,
                                        meetings, progress>>]_vars

\* The meeting has been set after the access code, each with its entry.
C16_Witness ==
    /\ Answered("update_meeting", 200)
    /\ Len(audit) = 2
    /\ audit[1].action = "update_access_code"
    /\ audit[2] = AuditEntry(1, "updatemeeting", 0, <<"J", "a", "p", "a", "n">>, 30)
    /\ meetings = <<Meeting(21, <<"m">>)>>

(***************************************************************************)
(* Properties of the community statistics                                  *)
(***************************************************************************)
\* Whether a row at this chapter belongs to the bucket, as the buckets are
\* described.
InBucket(key, chapter) ==
    CASE key.range = "Not Started" -> chapter = 0
      [] key.range = "Chapters 1-2" -> chapter \in 1 .. 2
      [] key.range = "Chapters 3-4" -> chapter \in 3 .. 4
      [] key.range = "Chapters 5-6" -> chapter \in 5 .. 6
      [] key.range = "Chapters 7-8" -> chapter \in 7 .. 8
      [] key.range = "Chapter N+" -> chapter > 8 /\ chapter = key.chapter
      [] key.range = "Completed" -> chapter = 0 - 1
      [] OTHER -> FALSE

RECURSIVE SumCounts(_)
SumCounts(stats) ==
    IF stats = <<>> THEN 0 ELSE Head(stats).member_count + SumCounts(Tail(stats))

\* C17: for the current book with at least one Progress row, the statistics
\* place every row in exactly one listed bucket, list only buckets with at
\* least one row, and the counts sum to total_members, the number of
\* Progress rows of that book.
C17_CommunityBuckets ==
    [][(resp'.op = "get_community_progress" /\ resp'.status = 200) =>
         \A cb \in CurrentBooks(books) :
            LET mine == {r \in BagToSet(progress) : r.book_id = cb}
                stats == resp'.body.stats
                Rows(key) == SumCopies(progress,
                                {r \in mine : InBucket(key, r.chapter)})
            IN  mine # {} =>
                  /\ \A r \in mine :
                        Cardinality({i \in DOMAIN stats :
                           InBucket(stats[i].chapter_range, r.chapter)}) = 1
                  /\ \A i \in DOMAIN stats :
                        /\ stats[i].member_count >= 1
                        /\ stats[i].member_count = Rows(stats[i].chapter_range)
                  /\ SumCounts(stats) = resp'.body.total_members
                  /\ resp'.body.total_members = SumCopies(progress, mine)]_vars

\* Statistics with a row not started, one past chapter 8 and no others.
C17_Witness ==
    /\ Answered("get_community_progress", 200)
    /\ resp.body.total_members = 2
    /\ Len(resp.body.stats) = 2
    /\ resp.body.stats[1].chapter_range = Range("Not Started")
    /\ resp.body.stats[2].chapter_range = [range |-> "Chapter N+", chapter |-> 10]
    /\ resp.body.stats[2].percentage = 500

(***************************************************************************)
(* Properties of logout and of deleted accounts                            *)
(***************************************************************************)
MemberApiOps == {"get_me", "get_admin_stats"}

\* C18: logout leaves the session without any data; while it is so, every
\* member-level request is answered 401 and every guest-level request 403,
\* and it stays so until a code is verified or a login succeeds.
C18_LogoutClears ==
    [][LET old == sessions[AccountSession]
           new == sessions'[AccountSession]
       IN  /\ resp'.op = "logout" => new = EmptySession
           /\ old = EmptySession =>
                 /\ resp'.op \in MemberApiOps => resp'.status = 401
                 /\ resp'.op \in GuestOps => resp'.status = 403
                 /\ new # EmptySession
                       => resp'.op \in {"verify_code", "login"} /\ resp'.status = 200]_vars

\* The browser that verified the code and registered a member has logged out.
C18_Witness ==
    /\ Answered("logout", 303)
    /\ sessions[AccountSession] = EmptySession
    /\ 3 \in DOMAIN users

MemberRequestOps == {"get_me", "get_admin_stats", "delete_account"}

C20_SetCurrentRace ==
    [][\A r \in Requests :
          SetCurrentBookCommit(r)
             => /\ resp'.status = 200
                /\ CurrentBooks(books') = CurrentBooks(books) \cup {inflight[r].book_id}
                /\ Len(audit') = Len(audit) + 1]_vars

\* Two set-current requests have both succeeded and two books are current.
C20_Witness ==
    /\ resp = Response("set_current_book", 200, "ok")
    /\ Cardinality(CurrentBooks(books)) = 2
    /\ Len(audit) = 2
    /\ \A i \in 1 .. 2 : audit[i].action = "set_current_book"
    /\ audit[1].target_id # audit[2].target_id

(***************************************************************************)
(* Properties of concurrent admin changes                                  *)
(***************************************************************************)
\* Both requests are answered and both counted the two admins, so each ran
\* its count before the other committed; no third request is involved.
BothCounted(r, q) ==
    /\ r # q
    /\ inflight[r].pc = "done" /\ inflight[q].pc = "done"
    /\ inflight[r].admin_count = 2 /\ inflight[q].admin_count = 2
    /\ \A x \in Requests \ {r, q} : inflight[x].pc = "idle"

MutualDemote(r, q) ==
    /\ inflight[r].op = "demote_from_admin" /\ inflight[q].op = "demote_from_admin"
    /\ inflight[r].user_id = inflight[q].admin
    /\ inflight[q].user_id = inflight[r].admin

\* r is one admin's demote (of the other admin) and q is the other admin's
\* delete_account.
DemoteAndOthersDelete(r, q) ==
    /\ inflight[r].op = "demote_from_admin" /\ inflight[q].op = "delete_account"
    /\ inflight[r].user_id = inflight[q].user_id

BothSucceedNoAdmin(r, q) ==
    /\ inflight[r].status = 200 /\ inflight[q].status = 200
    /\ AdminCount = 0

BooksFrom(sg) ==
    {b \in DOMAIN books :
        books[b].title = sg.title /\ books[b].pdf_url = sg.pdf_url}

StillReading(row) ==
    /\ row.book_id \in DOMAIN books
    /\ books[row.book_id].status = "completed"
    /\ row.chapter > 0

UnknownEmail(form) ==
    /\ ValidateEmail(Lower(Strip(form.email)))
    /\ UsersByEmail(Lower(Strip(form.email))) = {}

\* The login request is for a registered email, with a password that is
\* not the member's or against a stored hash that cannot be verified.
WrongPassword(form) ==
    \E u \in UsersByEmail(Lower(Strip(form.email))) :
       \/ users[u].password_hash = MalformedHash
       \/ users[u].password_hash # HashPassword(form.password, users[u].password_hash.salt)

\* C24: a login attempt with a well-formed email of no member and one with
\* a registered email and a wrong password, or a stored hash that cannot
\* be verified, get the same response, 401 with the same detail text, and
\* neither changes the session.
C24_LoginIndistinguishable ==
    [][resp'.op = "login" =>
         \A form \in LoginInputs :
            (/\ Login(AccountSession, form.email, form.password)
             /\ (UnknownEmail(form) \/ WrongPassword(form)))
               => /\ resp' = Response("login", 401, "invalid email or password")
                  /\ UNCHANGED sessions]_vars

\* A logged-in browser has tried to log in as the member whose hash cannot
\* be verified, and is still logged in as before.
C24_Witness ==
    /\ resp = Response("login", 401, "invalid email or password")
    /\ Get(sessions[AccountSession], "user_id", NoUser) = 2
    /\ users[3].password_hash = MalformedHash

(***************************************************************************)
(* Properties of the order of the community statistics                     *)
(***************************************************************************)
\* The place of a bucket in the display order as described.
DisplayRank(key) ==
    CASE key.range = "Not Started" -> 0
      [] key.range = "Chapters 1-2" -> 1
      [] key.range = "Chapters 3-4" -> 2
      [] key.range = "Chapters 5-6" -> 3
      [] key.range = "Chapters 7-8" -> 4
      [] key.range = "Chapter N+" -> 5
      [] key.range = "Completed" -> 6

\* C25: the community statistics list their buckets in the order Not
\* Started, Chapters 1-2, 3-4, 5-6, 7-8, then the buckets for chapters 9 and
\* above, and Completed last, for every set of Progress rows of the current
\* book.
C25_DisplayOrder ==
    (resp.op = "get_community_progress" /\ resp.status = 200) =>
       \A i, j \in DOMAIN resp.body.stats :
          i < j => DisplayRank(resp.body.stats[i].chapter_range)
                      <= DisplayRank(resp.body.stats[j].chapter_range)

\* Statistics that list Completed before a bucket for a chapter past 8.
C25_Witness ==
    /\ resp.op = "get_community_progress" /\ resp.status = 200
    /\ Len(resp.body.stats) = 2
    /\ resp.body.stats[1].chapter_range = Range("Completed")
    /\ resp.body.stats[2].chapter_range = [range |-> "Chapter N+", chapter |-> 9]

(***************************************************************************)
(* Properties of sessions without session_created_at                       *)
(***************************************************************************)
\* The session holds the id of an existing member and no session_created_at.
Unstamped(sess) ==
    /\ Get(sess, "user_id", NoUser) \in DOMAIN users
    /\ "session_created_at" \notin DOMAIN sess

\* C26: a member-level request with a session that holds a member's id and no
\* session_created_at is served as for any logged-in member (403 when the
\* endpoint is for admins and the member is none) and leaves the session as
\* it was plus session_created_at set to the current time.
C26_FirstRequestStamps ==
    [][resp'.op \in MemberApiOps =>
         LET old == sessions[AccountSession]
             new == sessions'[AccountSession]
         IN  Unstamped(old)
                => /\ resp'.status \in {200, 403}
                   /\ new = Put(old, "session_created_at", now)]_vars

\* The member has logged in and the request for its own data that followed
\* has been answered 500; the session is as login left it.
C26_Witness ==
    /\ resp = Response("get_me", 500, "server error")
    /\ sessions[AccountSession] = AfterLogin(2)
    /\ Unstamped(sessions[AccountSession])

(***************************************************************************)
(* Properties of demotion, one request at a time                           *)
(***************************************************************************)
\* The demote request of session s for user_id passes every test before the
\* count of admins: the caller is an admin, the target another member, an
\* admin too.
ReachesCount(s, user_id) ==
    /\ Caller(s) # NoUser
    /\ users[Caller(s)].is_admin
    /\ user_id # Caller(s)
    /\ user_id \in DOMAIN users
    /\ users[user_id].is_admin

\* C27: with requests handled one at a time, a demote request that reaches
\* the count of admins finds at least two and succeeds, so no demote
\* request is answered that the last admin cannot be demoted.
C27_LastAdminBranchDead ==
    [][resp'.op = "demote_from_admin" =>
         /\ resp'.detail # "last admin"
         /\ \A s \in SessionIds, u \in UserIdInputs :
               (DemoteFromAdmin(s, u) /\ ReachesCount(s, u))
                  => AdminCount >= 2 /\ resp'.status = 200]_vars

\* The second admin has demoted the first: the count was two, the least that
\* an admin demoting another can find.
C27_Witness ==
    /\ resp = Response("demote_from_admin", 200, "ok")
    /\ AdminCount = 1
    /\ users[2].is_admin /\ ~users[1].is_admin
    /\ audit[Len(audit)] = AuditEntry(2, "demote_admin", 1, AdminEmail, 0)

(***************************************************************************)
(* Properties of a password change                                         *)
(***************************************************************************)
\* The session is one get_current_user accepts: it holds the id of an
\* existing member and a session_created_at not more than 7 days old.
Authenticates(sess) ==
    /\ Get(sess, "user_id", NoUser) \in DOMAIN users
    /\ "session_created_at" \in DOMAIN sess
    /\ now - sess["session_created_at"] <= SessionTimeoutDays

\* C28: a successful change_password empties the session of the request and
\* no other: every other session of the member is as before and is accepted
\* by the requests that follow, whatever the password now is, for as long
\* as its own session_created_at is not more than 7 days old.
C28_OtherSessionsSurvive ==
    [][/\ \A s \in SessionIds, form \in PasswordChanges, salt \in Salts :
             (/\ ChangePassword(s, form.current_password, form.new_password, salt)
              /\ resp'.status = 200)
                => /\ sessions'[s] = EmptySession
                   /\ \A t \in SessionIds \ {s} : sessions'[t] = sessions[t]
       /\ \A t \in SessionIds :
             (GetMe(t) /\ Authenticates(sessions[t]))
                => resp'.status = 200 /\ sessions'[t] = sessions[t]]_vars

\* The first browser has changed the password and is logged out; the second,
\* logged in with the old password, has been served the member's data.
C28_Witness ==
    /\ resp = Response("get_me", 200, "ok")
    /\ sessions[1] = EmptySession
    /\ sessions[2] = Put(LoggedIn(2), "session_created_at", 1 + TickDays)
    /\ users[2].password_hash = HashPassword(OtherPassword, "s1")

(***************************************************************************)
(* Properties of interleaved progress updates                              *)
(***************************************************************************)
\* Both requests are answered update_progress requests of the same member
\* for the same book, each of which found no row of the pair at its query;
\* no third request is involved.
BothFirstTime(r, q) ==
    /\ r # q
    /\ inflight[r].pc = "done" /\ inflight[q].pc = "done"
    /\ inflight[r].op = "update_progress" /\ inflight[q].op = "update_progress"
    /\ inflight[r].user_id = inflight[q].user_id
    /\ inflight[r].book_id = inflight[q].book_id
    /\ ~inflight[r].existing /\ ~inflight[q].existing
    /\ \A x \in Requests \ {r, q} : inflight[x].pc = "idle"

\* C29: no pair of member and book ever has more than one Progress row, and
\* of two update_progress requests for the same pair that both found no row
\* one inserts its row and succeeds and the other fails without a row of
\* its own, so that the pair has the one row of the first to commit.
C29_OneInsertWins ==
    /\ \A row \in BagToSet(progress) :
          SumCopies(progress,
                    ExistingProgress(progress, row.user_id, row.book_id)) = 1
    /\ \A r, q \in Requests :
          BothFirstTime(r, q)
             => /\ {inflight[r].status, inflight[q].status} = {200, 500}
                /\ \E w \in {r, q} :
                      /\ inflight[w].status = 200
                      /\ ExistingProgress(progress, inflight[w].user_id,
                                          inflight[w].book_id)
                            = {ReadingProgress(inflight[w].user_id,
                                               inflight[w].book_id,
                                               inflight[w].chapter)}

\* Two first reports of the member on book 1, chapters 0 and 3, both past
\* the query before either commit: the second commit has failed.
C29_Witness ==
    /\ \E r, q \in Requests :
          /\ BothFirstTime(r, q)
          /\ inflight[r].chapter # inflight[q].chapter
          /\ inflight[r].user_id = 2 /\ inflight[r].book_id = 1
    /\ resp = Response("update_progress", 500, "server error")
    /\ BagCardinality(progress) = 1

====
